---- MODULE Spec2Model ----
(***************************************************************************)
(* Vote-state tracking and change detection of wca-gap-tracking:           *)
(* the subscription / preference store, the push dispatcher and the        *)
(* notification loop of src/notification_service.py, with the API          *)
(* handlers of src/api.py that feed the store.                             *)
(***************************************************************************)
EXTENDS Integers, Sequences, FiniteSets, TLC

VARIABLES
    subscribers,        \* table subscribers: endpoint -> keys
    user_preferences,   \* table user_preferences: endpoint -> row
    votes_latest,       \* table votes_latest: "award-nominee" -> vote count
    clock,              \* wall clock, seconds (time.time())
    user_states,        \* run(): user_states, endpoint -> state
    pc,                 \* run(): position of the notification loop
    all_preferences,    \* run(): preferences read at the start of the cycle
    current_votes,      \* run(): votes read at the start of the cycle
    now,                \* run(): time read at the start of the cycle
    todo,               \* run(): endpoints of all_preferences.items() still to visit
    log,                \* what the current cycle did, one entry per visited recipient
    last_sent,          \* history: time of the last RaceSummary sent per endpoint
    sent_before,        \* history: milestones sent per endpoint in earlier cycles,
                        \* and again, marked, those whose delivery failed
    pruned,             \* history: per endpoint, the tables whose row a
                        \* prune deleted and no request has written since
    gone,               \* history: the endpoints for which the transport has
                        \* answered 400 or 410 since they last subscribed
    old_vote,           \* argument of check_milestone_crossed
    new_vote,           \* argument of check_milestone_crossed
    milestone,          \* its result: {} for None, {m} for a milestone m
    request,            \* the last request to the API recorded with its answer
    gap_call,           \* the last ranking or gap computation: arguments, result
    fetched_at,         \* table votes_latest: "award-nominee" -> fetched_at
    votes_history,      \* table votes_history: its rows in the order of their id
    crawl,              \* poll loop: position, calls made, last response and
                        \* result, the save under way, the saves completed
    pifam               \* PiFam gap tracker: time of its last cycle, cycles
                        \* made, last response, the tables pifam_gap_tracking
                        \* and pifam_gap_history, last_history_save

vars == <<subscribers, user_preferences, votes_latest, clock, user_states, pc,
          all_preferences, current_votes, now, todo, log, last_sent,
          sent_before, pruned, gone, old_vote, new_vote, milestone, request,
          gap_call, fetched_at, votes_history, crawl, pifam>>

loopVars == <<pc, all_preferences, current_votes, now, todo, log>>
fnVars == <<old_vote, new_vote, milestone, request, gap_call>>
crawlVars == <<fetched_at, votes_history, crawl>>

-----------------------------------------------------------------------------
(* Bounds and input sets                                                   *)

MaxTicks == 2
MaxFailures == 1
MaxCrawls == 3

TickSeconds == {900}
Horizon == MaxTicks * 900

Endpoints == {"e1", "e2"}
KeySets == {"k1"}

EmptyMap == [x \in {} |-> 0]

\* A dict lookup with a default: d.get(k, default)
Get(d, k, default) == IF k \in DOMAIN d THEN d[k] ELSE default

Restrict(f, S) == [x \in (DOMAIN f) \cap S |-> f[x]]

Range(s) == {s[i] : i \in DOMAIN s}

-----------------------------------------------------------------------------
(* Catalog: nominee_metadata, built once by load_nominee_metadata          *)

Nid(award_id, nominee_id) == award_id \o "-" \o nominee_id

nominee_metadata ==
    [k \in {"A-X", "A-Y", "A-Z", "B-P", "B-Q"} |->
        CASE k = "A-X" -> [award_id |-> "A", nominee_id |-> "X"]
          [] k = "A-Y" -> [award_id |-> "A", nominee_id |-> "Y"]
          [] k = "A-Z" -> [award_id |-> "A", nominee_id |-> "Z"]
          [] k = "B-P" -> [award_id |-> "B", nominee_id |-> "P"]
          [] k = "B-Q" -> [award_id |-> "B", nominee_id |-> "Q"]]

-----------------------------------------------------------------------------
(* Milestones                                                              *)

get_milestone_step(vote_count) ==
    IF vote_count <= 10000 THEN 1000
    ELSE IF vote_count <= 50000 THEN 5000
    ELSE IF vote_count <= 200000 THEN 10000
    ELSE IF vote_count <= 1000000 THEN 50000
    ELSE 100000

check_milestone_crossed_ge(old, new) ==
    IF old >= new THEN {}
    ELSE LET step == get_milestone_step(new)
             old_milestone == (old \div step) * step
             new_milestone == (new \div step) * step
         IN  IF new_milestone >= old_milestone THEN {new_milestone} ELSE {}

check_milestone_crossed_old_step(old, new) ==
    IF old >= new THEN {}
    ELSE LET step == get_milestone_step(old)
             old_milestone == (old \div step) * step
             new_milestone == (new \div step) * step
         IN  IF new_milestone > old_milestone THEN {new_milestone} ELSE {}

check_milestone_crossed(old, new) ==
    IF old >= new THEN {}
    ELSE LET step == get_milestone_step(new)
             old_milestone == (old \div step) * step
             new_milestone == (new \div step) * step
         IN  IF new_milestone > old_milestone THEN {new_milestone} ELSE {}

-----------------------------------------------------------------------------
(* Subscription and preference store (subscribers.db)                      *)

\* Python's None and SQL's NULL, as a JSON body carries null.
None == "None"

\* add_subscriber: a falsy sub_info or one without 'endpoint' is refused;
\* otherwise INSERT OR REPLACE of the row keyed by the endpoint, committed.
\* The print of line 79 slices the endpoint: with an endpoint that is None
\* it raises after the commit, and line 82 answers False with the row
\* written. (Rows with a NULL endpoint do not replace one another; the
\* table modelled keeps one of them.)
add_subscriber(subs, sub_info) ==
    IF DOMAIN sub_info = {} \/ "endpoint" \notin DOMAIN sub_info
    THEN [ok |-> FALSE, subscribers |-> subs]
    ELSE [ok |-> sub_info.endpoint # None,
          subscribers |-> (sub_info.endpoint :> Get(sub_info, "keys", None))
                          @@ subs]

\* remove_subscription: DELETE from both tables, one commit. WHERE
\* endpoint = NULL matches no row.
remove_subscription_keep_prefs(subs, prefs, endpoint) ==
    [subscribers |-> Restrict(subs, DOMAIN subs \ ({endpoint} \ {None})),
     user_preferences |-> prefs]

remove_subscription(subs, prefs, endpoint) ==
    [subscribers |-> Restrict(subs, DOMAIN subs \ ({endpoint} \ {None})),
     user_preferences |-> Restrict(prefs, DOMAIN prefs \ ({endpoint} \ {None}))]

\* set_user_preferences: INSERT OR REPLACE of the row keyed by the endpoint.
\* The filter is stored as JSON text and read back with json.loads; on the
\* lists of 2-element lists of strings that request.json yields, dumps then
\* loads gives back the same lists, and an empty filter is stored as '[]'.
set_user_preferences(prefs, endpoint, nominee_filter, summary_interval) ==
    (endpoint :> [nominee_filter |-> nominee_filter,
                  summary_interval |-> summary_interval]) @@ prefs

\* api_preferences (POST): the validation in front of set_user_preferences.
\* A filter entry is modelled as a sequence; a well-formed one has 2 elements.
preferences_valid_any_interval(endpoint, nominee_filter, summary_interval) ==
    /\ endpoint # ""
    /\ \A i \in DOMAIN nominee_filter : Len(nominee_filter[i]) = 2

preferences_valid(endpoint, nominee_filter, summary_interval) ==
    /\ endpoint # ""
    /\ \A i \in DOMAIN nominee_filter : Len(nominee_filter[i]) = 2
    /\ ~(summary_interval < 15 * 60)

\* get_all_user_preferences: user_preferences INNER JOIN subscribers;
\* a summary_interval of 0 reads as 900 (row['summary_interval'] or 900).
get_all_user_preferences_no_join(subs, prefs) ==
    [e \in DOMAIN prefs |->
        [nominee_filter |-> prefs[e].nominee_filter,
         summary_interval |-> IF prefs[e].summary_interval = 0 THEN 900
                              ELSE prefs[e].summary_interval]]

get_all_user_preferences(subs, prefs) ==
    [e \in ((DOMAIN prefs) \cap (DOMAIN subs)) \ {None} |->
        [nominee_filter |-> prefs[e].nominee_filter,
         summary_interval |-> IF prefs[e].summary_interval = 0 THEN 900
                              ELSE prefs[e].summary_interval]]

-----------------------------------------------------------------------------
(* Vote store (wca_votes.db) and crawl_votes                               *)

\* _save_votes, first statement: INSERT ... ON CONFLICT(award_id,
\* nominee_id) DO UPDATE. The primary key keeps one row per key.
upsert_latest_ignore(latest, votes_data) == latest @@ votes_data

upsert_latest(latest, votes_data) == votes_data @@ latest

\* The keys of a fetch in the order its rows are built.
KeySeq(votes_data) == CHOOSE s \in [1..Cardinality(DOMAIN votes_data) ->
                                      DOMAIN votes_data] :
                          Range(s) = DOMAIN votes_data

\* rows_history: one row per key of the fetch, all with the same fetched_at.
HistoryRows(votes_data, t) ==
    [i \in 1..Cardinality(DOMAIN votes_data) |->
        [nid |-> KeySeq(votes_data)[i],
         vote_count |-> votes_data[KeySeq(votes_data)[i]],
         fetched_at |-> t]]

\* _save_votes, second statement: INSERT INTO votes_history.
append_history_latest_only(history, votes_data, t) ==
    SelectSeq(history, LAMBDA row : row.nid \notin DOMAIN votes_data)
    \o HistoryRows(votes_data, t)

append_history(history, votes_data, t) ==
    history \o HistoryRows(votes_data, t)

\* crawl_votes, lines 140-159: what the response gives to save. None unless
\* the request returned, the body has Success = True and every item of Data
\* parses; otherwise the votes by key (empty for an empty Data).
crawl_parse_any_status(response) ==
    IF response.kind = "transport_error" \/ response.malformed
    THEN [none |-> TRUE, votes_data |-> EmptyMap]
    ELSE [none |-> FALSE, votes_data |-> response.data]

crawl_parse(response) ==
    IF response.kind = "transport_error" \/ ~response.success
       \/ response.malformed
    THEN [none |-> TRUE, votes_data |-> EmptyMap]
    ELSE [none |-> FALSE, votes_data |-> response.data]

\* get_latest_votes: the latest vote count of every nominee, keyed
\* "award-nominee", as the notification loop reads it.
get_latest_votes(latest) == latest

-----------------------------------------------------------------------------
(* Push dispatcher                                                         *)

\* What the push transport answers to one webpush call.
TransportOutcomes == {"delivered", "transient", "permanent"}

\* send_push_notification(message, target_endpoints): the current
\* subscribers table is read and narrowed to the targets (an empty or absent
\* target list means every subscriber); one webpush call is made per
\* remaining row. A WebPushException with status 400 or 410 ("permanent")
\* removes the subscription; any other failure is only printed.
PushRecipientsAll(subs, target_endpoints) == DOMAIN subs

PushRecipients(subs, target_endpoints) ==
    IF target_endpoints = {} THEN DOMAIN subs
    ELSE (DOMAIN subs) \cap target_endpoints

RECURSIVE RemoveAll(_, _, _)
RemoveAll(subs, prefs, endpoints) ==
    IF endpoints = {} THEN [subscribers |-> subs, user_preferences |-> prefs]
    ELSE LET e == CHOOSE x \in endpoints : TRUE
             r == remove_subscription(subs, prefs, e)
         IN  RemoveAll(r.subscribers, r.user_preferences, endpoints \ {e})

send_push_notification_prune_any(subs, prefs, target_endpoints, outcome) ==
    LET to == PushRecipients(subs, target_endpoints)
    IN  IF to = {}
        THEN [subscribers |-> subs, user_preferences |-> prefs,
              attempted |-> {}, outcome |-> "no_subscriber"]
        ELSE IF outcome # "delivered"
        THEN RemoveAll(subs, prefs, to)
             @@ [attempted |-> to, outcome |-> outcome]
        ELSE [subscribers |-> subs, user_preferences |-> prefs,
              attempted |-> to, outcome |-> outcome]

send_push_notification(subs, prefs, target_endpoints, outcome) ==
    LET to == PushRecipients(subs, target_endpoints)
    IN  IF to = {}
        THEN [subscribers |-> subs, user_preferences |-> prefs,
              attempted |-> {}, outcome |-> "no_subscriber"]
        ELSE IF outcome = "permanent"
        THEN RemoveAll(subs, prefs, to)
             @@ [attempted |-> to, outcome |-> outcome]
        ELSE [subscribers |-> subs, user_preferences |-> prefs,
              attempted |-> to, outcome |-> outcome]

-----------------------------------------------------------------------------
(* Change detector: the body of run() for one recipient                    *)

\* Lines 285-286: the filter entries as "award-nominee" ids, keeping those
\* that are in the catalog and in the votes read this cycle (order and
\* repetitions of the filter kept).
NomineeIds(nominee_filter, cv) ==
    LET ids == [i \in DOMAIN nominee_filter |->
                    Nid(nominee_filter[i][1], nominee_filter[i][2])]
    IN  SelectSeq(ids, LAMBDA nid : nid \in DOMAIN nominee_metadata
                                    /\ nid \in DOMAIN cv)

\* Lines 291-298: the keys of nominees_by_award in insertion order.
RECURSIVE AwardOrder(_)
AwardOrder(ids) ==
    IF ids = <<>> THEN <<>>
    ELSE LET front == AwardOrder(SubSeq(ids, 1, Len(ids) - 1))
             a == nominee_metadata[ids[Len(ids)]].award_id
         IN  IF a \in Range(front) THEN front ELSE Append(front, a)

\* nominees_by_award[award_id]
AwardGroup(ids, award_id) ==
    SelectSeq(ids, LAMBDA nid : nominee_metadata[nid].award_id = award_id)

\* sorted(ids, key=lambda x: votes.get(x, 0), reverse=True): a stable sort,
\* entries with equal votes keep the order they have in ids.
RECURSIVE InsertDescTiesFirst(_, _, _)
InsertDescTiesFirst(ranking, x, votes) ==
    IF ranking = <<>> THEN <<x>>
    ELSE IF Get(votes, Head(ranking), 0) > Get(votes, x, 0)
    THEN <<Head(ranking)>> \o InsertDescTiesFirst(Tail(ranking), x, votes)
    ELSE <<x>> \o ranking

RECURSIVE InsertDesc(_, _, _)
InsertDesc(ranking, x, votes) ==
    IF ranking = <<>> THEN <<x>>
    ELSE IF Get(votes, Head(ranking), 0) >= Get(votes, x, 0)
    THEN <<Head(ranking)>> \o InsertDesc(Tail(ranking), x, votes)
    ELSE <<x>> \o ranking

RECURSIVE SortedDesc(_, _)
SortedDesc(ids, votes) ==
    IF ids = <<>> THEN <<>>
    ELSE InsertDesc(SortedDesc(SubSeq(ids, 1, Len(ids) - 1), votes),
                    ids[Len(ids)], votes)

\* list.index(x), 0-based: the first position of x.
IndexOf(s, x) ==
    (CHOOSE i \in DOMAIN s : s[i] = x /\ \A j \in 1..(i - 1) : s[j] # x) - 1

\* Lines 318-339: the summary of one award group, when it is due.
SummaryEvents(curr_ranking, cv, due) ==
    IF due /\ Len(curr_ranking) >= 2
    THEN LET top1_votes == Get(cv, curr_ranking[1], 0)
             top2_votes == Get(cv, curr_ranking[2], 0)
         IN  <<[kind |-> "RaceSummary", nid |-> curr_ranking[1],
                value |-> top1_votes, gap |-> top1_votes - top2_votes]>>
    ELSE <<>>

\* Lines 341-366: one push per entry of curr_ranking that moved up; the
\* title and body are those of a new leader when rank_index is 0.
RECURSIVE RankEvents(_, _, _)
RankEvents(i, curr_ranking, prev_ranking) ==
    IF i > Len(curr_ranking) THEN <<>>
    ELSE LET nid == curr_ranking[i]
             rank_index == i - 1
             prev_rank_index == IF nid \in Range(prev_ranking)
                                THEN IndexOf(prev_ranking, nid) ELSE -1
             ev == IF prev_rank_index # -1 /\ rank_index # prev_rank_index
                      /\ rank_index < prev_rank_index
                   THEN <<[kind |-> IF rank_index = 0 THEN "NewLeader"
                                    ELSE "RankUp",
                           nid |-> nid, value |-> rank_index + 1, gap |-> 0]>>
                   ELSE <<>>
         IN  ev \o RankEvents(i + 1, curr_ranking, prev_ranking)

\* Lines 368-387: one push per entry of the group whose votes crossed a
\* milestone.
RECURSIVE MilestoneEvents(_, _, _)
MilestoneEvents(award_nominee_ids, cv, pv) ==
    IF award_nominee_ids = <<>> THEN <<>>
    ELSE LET nid == Head(award_nominee_ids)
             m == check_milestone_crossed(Get(pv, nid, 0), Get(cv, nid, 0))
         IN  [x \in 1..Cardinality(m) |->
                 [kind |-> "Milestone", nid |-> nid,
                  value |-> CHOOSE v \in m : TRUE, gap |-> 0]]
             \o MilestoneEvents(Tail(award_nominee_ids), cv, pv)

\* Lines 306-387 for one award group, in the order the pushes are sent.
AwardEventsMilestonesFirst(award_nominee_ids, cv, pv, due) ==
    LET curr_ranking == SortedDesc(award_nominee_ids, cv)
        prev_ranking == SortedDesc(award_nominee_ids, pv)
    IN  MilestoneEvents(award_nominee_ids, cv, pv)
        \o SummaryEvents(curr_ranking, cv, due)
        \o RankEvents(1, curr_ranking, prev_ranking)

AwardEvents(award_nominee_ids, cv, pv, due) ==
    LET curr_ranking == SortedDesc(award_nominee_ids, cv)
        prev_ranking == SortedDesc(award_nominee_ids, pv)
    IN  SummaryEvents(curr_ranking, cv, due)
        \o RankEvents(1, curr_ranking, prev_ranking)
        \o MilestoneEvents(award_nominee_ids, cv, pv)

\* Line 318: whether the summary is due.
SummaryDue(t, last_summary_time, summary_interval) ==
    t - last_summary_time >= summary_interval

\* Lines 306-387 over all award groups. last_summary_time is set to now
\* once a summary has been sent (line 339), which later groups then read.
RECURSIVE EventsOfGroupsNoReset(_, _, _, _, _, _, _)
EventsOfGroupsNoReset(awards, ids, cv, pv, last_summary_time, t, summary_interval) ==
    IF awards = <<>> THEN <<>>
    ELSE LET group == AwardGroup(ids, Head(awards))
             due == SummaryDue(t, last_summary_time, summary_interval)
         IN  AwardEvents(group, cv, pv, due)
             \o EventsOfGroupsNoReset(Tail(awards), ids, cv, pv,
                                      last_summary_time, t, summary_interval)

RECURSIVE EventsOfGroups(_, _, _, _, _, _, _)
EventsOfGroups(awards, ids, cv, pv, last_summary_time, t, summary_interval) ==
    IF awards = <<>> THEN <<>>
    ELSE LET group == AwardGroup(ids, Head(awards))
             due == SummaryDue(t, last_summary_time, summary_interval)
             evs == AwardEvents(group, cv, pv, due)
             last == IF due /\ Len(group) >= 2 THEN t ELSE last_summary_time
         IN  evs \o EventsOfGroups(Tail(awards), ids, cv, pv, last, t,
                                   summary_interval)

RecipientEvents(ids, cv, pv, last_summary_time, t, summary_interval) ==
    EventsOfGroups(AwardOrder(ids), ids, cv, pv, last_summary_time, t,
                   summary_interval)

\* Lines 301 and 389: {nid: current_votes.get(nid, 0) for nid in nominee_ids}
VotesOf(ids, cv) == [nid \in Range(ids) |-> Get(cv, nid, 0)]

\* The pushes of one recipient, sent in order; outs[i] is what the transport
\* answers to the i-th one if it is attempted.
RECURSIVE Dispatch(_, _, _, _, _)
Dispatch(events, outs, subs, prefs, target) ==
    IF events = <<>>
    THEN [subscribers |-> subs, user_preferences |-> prefs, sent |-> <<>>]
    ELSE LET r == send_push_notification(subs, prefs, {target}, Head(outs))
             rest == Dispatch(Tail(events), Tail(outs), r.subscribers,
                              r.user_preferences, target)
         IN  [rest EXCEPT !.sent =
                 <<[outcome |-> r.outcome, attempted |-> r.attempted]
                   @@ Head(events)>> \o @]

\* The transport's answers to n pushes, at most k of them failures.
RECURSIVE OutcomeSeqsUpTo(_, _)
OutcomeSeqsUpTo(n, k) ==
    IF n = 0 THEN {<<>>}
    ELSE {<<"delivered">> \o s : s \in OutcomeSeqsUpTo(n - 1, k)}
         \cup (IF k = 0 THEN {}
               ELSE {<<f>> \o s : f \in TransportOutcomes \ {"delivered"},
                                  s \in OutcomeSeqsUpTo(n - 1, k - 1)})

OutcomeSeqs(n) == OutcomeSeqsUpTo(n, MaxFailures)

-----------------------------------------------------------------------------
(* Ranking and gaps: PiFamGapTracker.calculate_and_save_gap                *)
(* (VoteGapTracker.get_gaps computes the same neighbours, without the top) *)

\* Line 255: sorted(award_votes.items(), key=lambda x: x[1], reverse=True).
\* ids are the keys of award_votes in the order the response gave them.
RankItems(ids, votes) ==
    LET r == SortedDesc(ids, votes)
    IN  [i \in DOMAIN r |-> <<r[i], votes[r[i]]>>]

\* Lines 267-271. idx is 0-based; {} stands for None.
GapAboveReversed(ranking, idx) ==
    IF idx > 0
    THEN [nominee_id |-> ranking[idx][1],
          gap |-> {ranking[idx + 1][2] - ranking[idx][2]}]
    ELSE [nominee_id |-> None, gap |-> {}]

GapAbove(ranking, idx) ==
    IF idx > 0
    THEN [nominee_id |-> ranking[idx][1],
          gap |-> {ranking[idx][2] - ranking[idx + 1][2]}]
    ELSE [nominee_id |-> None, gap |-> {}]

\* Lines 273-277
GapBelow(ranking, idx) ==
    IF idx < Len(ranking) - 1
    THEN [nominee_id |-> ranking[idx + 2][1],
          gap |-> {ranking[idx + 1][2] - ranking[idx + 2][2]}]
    ELSE [nominee_id |-> None, gap |-> {}]

\* Lines 279-280
GapToTopOfNeighbour(ranking, idx) ==
    IF idx > 0
    THEN [nominee_id |-> ranking[idx][1],
          gap |-> ranking[idx][2] - ranking[idx + 1][2]]
    ELSE [nominee_id |-> ranking[1][1], gap |-> 0]

GapToTop(ranking, idx) ==
    [nominee_id |-> ranking[1][1],
     gap |-> ranking[1][2] - ranking[idx + 1][2]]

\* Lines 255-280: the values of the row written next; {} when the nominee
\* is not in the votes (return at line 261).
calculate_gap(ids, votes, target) ==
    LET ranking == RankItems(ids, votes)
        rids == [i \in DOMAIN ranking |-> ranking[i][1]]
    IN  IF target \notin Range(rids) THEN {}
        ELSE LET idx == IndexOf(rids, target)
                 above == GapAbove(ranking, idx)
                 below == GapBelow(ranking, idx)
                 top == GapToTop(ranking, idx)
             IN  {[actual_rank |-> idx + 1,
                   current_votes |-> ranking[idx + 1][2],
                   gap_above |-> above.gap,
                   nominee_above_id |-> above.nominee_id,
                   gap_below |-> below.gap,
                   nominee_below_id |-> below.nominee_id,
                   gap_to_top |-> top.gap,
                   nominee_top_id |-> top.nominee_id]}

-----------------------------------------------------------------------------
(* Inputs                                                                  *)

\* Vote snapshots the vote API may return; each one is at least the one
\* before it, nominee by nominee.
VoteInputs ==
    << [k \in {"A-X", "A-Y", "A-Z"} |->
            CASE k = "A-X" -> 900 [] k = "A-Y" -> 500 [] k = "A-Z" -> 100],
       [k \in {"A-X", "A-Y", "A-Z"} |->
            CASE k = "A-X" -> 900 [] k = "A-Y" -> 1000 [] k = "A-Z" -> 100],
       [k \in {"A-X", "A-Y", "A-Z"} |->
            CASE k = "A-X" -> 900 [] k = "A-Y" -> 1000 [] k = "A-Z" -> 10050],
       [k \in {"A-X", "A-Y", "A-Z"} |->
            CASE k = "A-X" -> 12000 [] k = "A-Y" -> 1000 [] k = "A-Z" -> 10200] >>

\* The fetched counts are nowhere below the stored ones.
NoDecrease(latest, votes) ==
    \A k \in DOMAIN votes : votes[k] >= Get(latest, k, 0)

FilterXYZ == << <<"A", "X">>, <<"A", "Y">>, <<"A", "Z">> >>
FilterXX == << <<"A", "X">>, <<"A", "X">> >>
FilterDup == << <<"A", "X">>, <<"A", "X">>, <<"A", "Y">>, <<"A", "Z">> >>
FilterNoVotes == << <<"B", "P">> >>

\* Bodies of POST /preferences: (endpoint, nominee_filter, summary_interval)
PrefInputs ==
    { <<"e1", <<>>, 900>>, <<"e1", FilterXYZ, 900>>, <<"e1", FilterXX, 900>>,
      <<"e1", FilterDup, 900>>, <<"e1", FilterNoVotes, 900>> }

\* Arguments of check_milestone_crossed: the counts around every change of
\* step and around the multiples of the steps.
VoteSamples ==
    {0, 1, 900, 999, 1000, 1001, 9999, 10000, 10001, 10050, 10200, 12000,
     14999, 15000, 49999, 50000, 50001, 59999, 60000, 199999, 200000, 200001,
     249999, 250000, 999999, 1000000, 1000001, 1099999, 1100000, 1200000}

\* Bodies of POST /subscribe
SubInfos ==
    { [endpoint |-> "e1", keys |-> k] : k \in KeySets }

-----------------------------------------------------------------------------
(* Initial state: empty tables, a notification loop about to start         *)

Init ==
    /\ subscribers = EmptyMap
    /\ user_preferences = EmptyMap
    /\ votes_latest = EmptyMap
    /\ clock = 0
    /\ user_states = EmptyMap
    /\ pc = "idle"
    /\ all_preferences = EmptyMap
    /\ current_votes = EmptyMap
    /\ now = 0
    /\ todo = <<>>
    /\ log = <<>>
    /\ last_sent = [e \in Endpoints |-> {}]
    /\ sent_before = [e \in Endpoints |-> {}]
    /\ pruned = [e \in Endpoints |-> {}]
    /\ gone = {}
    /\ pifam = [now |-> 0, cycles |-> 0, response |-> [kind |-> "none"],
                pifam_gap_tracking |-> {}, pifam_gap_history |-> <<>>,
                last_history_save |-> {}]
    /\ old_vote = 0
    /\ new_vote = 0
    /\ milestone = {}
    /\ request = [op |-> "none"]
    /\ gap_call = [op |-> "none"]
    /\ fetched_at = EmptyMap
    /\ votes_history = <<>>
    /\ crawl = [pc |-> "idle", calls |-> 0, response |-> [kind |-> "none"],
                none |-> FALSE, votes_data |-> EmptyMap, now |-> 0,
                done |-> <<>>, failed |-> FALSE]

-----------------------------------------------------------------------------
(* API handlers, poll loop, clock                                          *)

\* api_subscribe
Subscribe(sub_info) ==
    LET r == add_subscriber(subscribers, sub_info)
    IN  /\ subscribers' = r.subscribers
        /\ pruned' = IF r.ok
                      THEN [pruned EXCEPT ![sub_info.endpoint] =
                                             @ \ {"subscribers"}]
                      ELSE pruned
        /\ gone' = IF r.ok THEN gone \ {sub_info.endpoint} ELSE gone
        /\ UNCHANGED <<user_preferences, votes_latest, clock, pifam, user_states,
                       loopVars, last_sent, sent_before, fnVars, crawlVars>>

\* api_unsubscribe
Unsubscribe(endpoint) ==
    LET r == remove_subscription(subscribers, user_preferences, endpoint)
    IN  /\ subscribers' = r.subscribers
        /\ user_preferences' = r.user_preferences
        /\ UNCHANGED <<votes_latest, clock, pifam, user_states, loopVars, last_sent,
                       sent_before, pruned, gone, fnVars, crawlVars>>

\* api_preferences (POST)
SetPreferences(endpoint, nominee_filter, summary_interval) ==
    /\ user_preferences' =
          IF preferences_valid(endpoint, nominee_filter, summary_interval)
          THEN set_user_preferences(user_preferences, endpoint,
                                    nominee_filter, summary_interval)
          ELSE user_preferences
    /\ pruned' =
          IF preferences_valid(endpoint, nominee_filter, summary_interval)
          THEN [pruned EXCEPT ![endpoint] = @ \ {"user_preferences"}]
          ELSE pruned
    /\ UNCHANGED gone
    /\ UNCHANGED <<subscribers, votes_latest, clock, pifam, user_states, loopVars,
                   last_sent, sent_before, fnVars, crawlVars>>

\* The poll loop as the notification loop sees it: what one committed save
\* leaves in the vote_count column of votes_latest. The fetched_at column
\* and votes_history, which run() never reads, are followed in SpecVotes.
Fetch(votes) ==
    /\ votes_latest' = upsert_latest(votes_latest, votes)
    /\ UNCHANGED <<subscribers, user_preferences, clock, pifam, user_states, loopVars,
                   last_sent, sent_before, pruned, gone, fnVars, crawlVars>>

\* The clock is read in steps of 900 s; a cycle, which takes seconds, lies
\* within one step.
Tick(d) ==
    /\ pc = "idle"
    /\ clock + d <= Horizon
    /\ clock' = clock + d
    /\ UNCHANGED <<pifam, subscribers, user_preferences, votes_latest, user_states,
                   loopVars, last_sent, sent_before, pruned, gone, fnVars, crawlVars>>

-----------------------------------------------------------------------------
(* Notification loop: run()                                                *)

\* The orders in which all_preferences.items() may yield its endpoints
\* (the rows of a SELECT without ORDER BY).
Orders(S) == {s \in [1..Cardinality(S) -> S] : Range(s) = S}

MilestonesOf(sent) ==
    {<<sent[i].nid, sent[i].value>> :
        i \in {j \in DOMAIN sent : sent[j].kind = "Milestone"}}

\* The milestones among the pushes whose delivery was attempted and failed,
\* marked as such.
FailedMilestonesOf(sent) ==
    {<<sent[i].nid, sent[i].value, "failed">> :
        i \in {j \in DOMAIN sent : /\ sent[j].kind = "Milestone"
                                    /\ sent[j].attempted # {}
                                    /\ sent[j].outcome # "delivered"}}

HasSummary(sent) == \E i \in DOMAIN sent : sent[i].kind = "RaceSummary"

HasPermanent(sent) == \E i \in DOMAIN sent : sent[i].outcome = "permanent"

\* Line 339: last_summary_time after the summary push has returned.
SummaryTimeAfterIfDelivered(sent, t, last_summary_time) ==
    IF \E i \in DOMAIN sent : sent[i].kind = "RaceSummary"
                              /\ sent[i].outcome = "delivered"
    THEN t ELSE last_summary_time

SummaryTimeAfter(sent, t, last_summary_time) ==
    IF HasSummary(sent) THEN t ELSE last_summary_time

\* Line 300: if not prev_votes
IsColdStartNever(prev_votes) == FALSE

IsColdStart(prev_votes) == DOMAIN prev_votes = {}

\* Lines 276-280: the state of an endpoint seen for the first time.
NewUserState(t) == [prev_votes |-> EmptyMap, last_summary_time |-> t]

LogEntry(endpoint, branch, state, ids, interval, sent) ==
    [endpoint |-> endpoint, branch |-> branch,
     prev_votes |-> state.prev_votes,
     last_summary_time |-> state.last_summary_time,
     nominee_ids |-> ids, summary_interval |-> interval,
     before |-> sent_before[endpoint], prev_sent |-> last_sent[endpoint],
     gone |-> endpoint \in gone, events |-> sent]

\* The votes the body of the loop works on: the local current_votes, bound
\* once at line 261 and not assigned again in the cycle.
CycleVotesReread == get_latest_votes(votes_latest)

CycleVotes == current_votes

\* Lines 255-267: the reads that open a cycle. With no active preference or
\* no vote the loop sleeps (lines 258, 264) and starts over (continue), its
\* locals unused.
NotifyBegin ==
    /\ pc = "idle"
    /\ LET prefs == get_all_user_preferences(subscribers, user_preferences)
           votes == get_latest_votes(votes_latest)
       IN  /\ log' = <<>>
           /\ IF DOMAIN prefs = {} \/ DOMAIN votes = {}
              THEN /\ UNCHANGED <<all_preferences, current_votes, now, todo>>
                   /\ pc' = "sleep"
                   /\ sent_before' = [e \in Endpoints |-> {}]
              ELSE /\ all_preferences' = prefs
                   /\ current_votes' = votes
                   /\ now' = clock
                   /\ \E order \in Orders(DOMAIN prefs) : todo' = order
                   /\ pc' = "loop"
                   /\ UNCHANGED sent_before
    /\ UNCHANGED <<subscribers, user_preferences, votes_latest, clock, pifam,
                   user_states, last_sent, pruned, gone, fnVars, crawlVars>>

\* Lines 258-259 and 264-265: time.sleep(10) returns and continue takes the
\* loop back to line 253.
NotifySleep ==
    /\ pc = "sleep"
    /\ pc' = "idle"
    /\ UNCHANGED <<subscribers, user_preferences, votes_latest, clock, pifam,
                   user_states, all_preferences, current_votes, now, todo,
                   log, last_sent, sent_before, pruned, gone, fnVars, crawlVars>>

\* Lines 269-389: the loop body for the next endpoint of all_preferences.
NotifyRecipient ==
    /\ pc = "loop"
    /\ todo # <<>>
    /\ LET endpoint == Head(todo)
           nominee_filter == all_preferences[endpoint].nominee_filter
           summary_interval == all_preferences[endpoint].summary_interval
           states1 == IF endpoint \in DOMAIN user_states THEN user_states
                      ELSE (endpoint :> NewUserState(now)) @@ user_states
           user_state == states1[endpoint]
           prev_votes == user_state.prev_votes
           nominee_ids == NomineeIds(nominee_filter, CycleVotes)
           events == RecipientEvents(nominee_ids, CycleVotes, prev_votes,
                                     user_state.last_summary_time, now,
                                     summary_interval)
       IN  /\ todo' = Tail(todo)
           /\ IF nominee_filter = <<>>
              THEN /\ log' = Append(log, LogEntry(endpoint, "no_filter",
                                NewUserState(now), <<>>, summary_interval, <<>>))
                   /\ sent_before' = [sent_before EXCEPT ![endpoint] = {}]
                   /\ UNCHANGED <<user_states, subscribers, user_preferences,
                                  last_sent, pruned, gone>>
              ELSE IF nominee_ids = <<>>
              THEN /\ user_states' = states1
                   /\ log' = Append(log, LogEntry(endpoint, "no_ids",
                                user_state, nominee_ids, summary_interval, <<>>))
                   /\ sent_before' = [sent_before EXCEPT ![endpoint] = {}]
                   /\ UNCHANGED <<subscribers, user_preferences, last_sent,
                                  pruned, gone>>
              ELSE IF IsColdStart(prev_votes)
              THEN /\ user_states' =
                        [states1 EXCEPT ![endpoint].prev_votes =
                                            VotesOf(nominee_ids, CycleVotes)]
                   /\ log' = Append(log, LogEntry(endpoint, "cold",
                                user_state, nominee_ids, summary_interval, <<>>))
                   /\ sent_before' = [sent_before EXCEPT ![endpoint] = {}]
                   /\ UNCHANGED <<subscribers, user_preferences, last_sent,
                                  pruned, gone>>
              ELSE \E outs \in OutcomeSeqs(Len(events)) :
                   LET d == Dispatch(events, outs, subscribers,
                                     user_preferences, endpoint)
                   IN  /\ subscribers' = d.subscribers
                       /\ user_preferences' = d.user_preferences
                       /\ user_states' =
                            [states1 EXCEPT ![endpoint] =
                               [prev_votes |->
                                    VotesOf(nominee_ids, CycleVotes),
                                last_summary_time |->
                                    SummaryTimeAfter(d.sent, now,
                                        user_state.last_summary_time)]]
                       /\ log' = Append(log, LogEntry(endpoint, "eval",
                                    user_state, nominee_ids, summary_interval,
                                    d.sent))
                       /\ sent_before' =
                            [sent_before EXCEPT ![endpoint] =
                               {m \in @ : m[1] \in Range(nominee_ids)}
                               \cup MilestonesOf(d.sent)
                               \cup FailedMilestonesOf(d.sent)]
                       /\ last_sent' =
                            IF HasSummary(d.sent)
                            THEN [last_sent EXCEPT ![endpoint] = {now}]
                            ELSE last_sent
                       /\ pruned' =
                            IF HasPermanent(d.sent)
                            THEN [pruned EXCEPT ![endpoint] =
                                     {"subscribers", "user_preferences"}]
                            ELSE pruned
                       /\ gone' = IF HasPermanent(d.sent)
                                  THEN gone \cup {endpoint} ELSE gone
    /\ UNCHANGED <<votes_latest, clock, pifam, pc, all_preferences, current_votes,
                   now, fnVars, crawlVars>>

\* Lines 391-392: endpoints absent from all_preferences leave user_states.
\* The locals of the cycle are dead from here to the reads of the next one
\* and are put back to their initial values.
GarbageCollect(states, prefs) == Restrict(states, DOMAIN prefs)

NotifyEnd ==
    /\ pc = "loop"
    /\ todo = <<>>
    /\ user_states' = GarbageCollect(user_states, all_preferences)
    /\ sent_before' = [e \in Endpoints |->
                         IF e \in DOMAIN all_preferences THEN sent_before[e]
                         ELSE {}]
    /\ pc' = "idle"
    /\ all_preferences' = EmptyMap
    /\ current_votes' = EmptyMap
    /\ now' = 0
    /\ log' = <<>>
    /\ UNCHANGED <<subscribers, user_preferences, votes_latest, clock, pifam, todo,
                   last_sent, pruned, gone, fnVars, crawlVars>>

\* An sqlite3 error raised under send_push_notification while the k-th push
\* of a recipient is sent: by get_all_subscriptions before the webpush call
\* ("read_error"), or by remove_subscription after the transport answered
\* 400 or 410 ("prune_error", nothing committed). Neither is caught before
\* line 394: the rest of the cycle is skipped, lines 389-392 included.
StorageFaults == {"read_error", "prune_error"}

\* Lines 394-397: the handler prints the error and falls through to
\* time.sleep(10), the last statement of the while body: the thread is back
\* at line 253. Only the print at line 395 tells of the error; the log keeps
\* it until the next cycle opens.
AfterExceptionFatal == "dead"

AfterException == "idle"

NotifyAbort ==
    /\ pc = "loop"
    /\ todo # <<>>
    /\ LET endpoint == Head(todo)
           nominee_filter == all_preferences[endpoint].nominee_filter
           summary_interval == all_preferences[endpoint].summary_interval
           states1 == IF endpoint \in DOMAIN user_states THEN user_states
                      ELSE (endpoint :> NewUserState(now)) @@ user_states
           user_state == states1[endpoint]
           prev_votes == user_state.prev_votes
           nominee_ids == NomineeIds(nominee_filter, current_votes)
           events == RecipientEvents(nominee_ids, current_votes, prev_votes,
                                     user_state.last_summary_time, now,
                                     summary_interval)
       IN  /\ nominee_filter # <<>>
           /\ nominee_ids # <<>>
           /\ ~IsColdStart(prev_votes)
           /\ \E k \in DOMAIN events, fault \in StorageFaults :
              \E outs \in OutcomeSeqs(k - 1) :
                LET d == Dispatch(SubSeq(events, 1, k - 1), outs, subscribers,
                                  user_preferences, endpoint)
                    attempted == fault = "prune_error"
                    sent == IF attempted
                            THEN Append(d.sent,
                                   [outcome |-> "permanent",
                                    attempted |-> {endpoint}] @@ events[k])
                            ELSE d.sent
                IN  /\ attempted => endpoint \in DOMAIN d.subscribers
                    /\ subscribers' = d.subscribers
                    /\ user_preferences' = d.user_preferences
                    /\ user_states' =
                         [states1 EXCEPT ![endpoint].last_summary_time =
                            SummaryTimeAfter(d.sent, now, @)]
                    /\ sent_before' =
                         [sent_before EXCEPT ![endpoint] =
                            {m \in @ : m[1] \in Range(nominee_ids)}
                            \cup MilestonesOf(sent)
                            \cup FailedMilestonesOf(sent)]
                    /\ last_sent' =
                         IF HasSummary(sent)
                         THEN [last_sent EXCEPT ![endpoint] = {now}]
                         ELSE last_sent
                    /\ pruned' =
                         IF HasPermanent(d.sent)
                         THEN [pruned EXCEPT ![endpoint] =
                                  {"subscribers", "user_preferences"}]
                         ELSE pruned
                    /\ gone' = IF HasPermanent(sent)
                               THEN gone \cup {endpoint} ELSE gone
           /\ log' = <<LogEntry(endpoint, "error", user_state, nominee_ids,
                                summary_interval, <<>>)>>
    /\ pc' = AfterException
    /\ todo' = <<>>
    /\ all_preferences' = EmptyMap
    /\ current_votes' = EmptyMap
    /\ now' = 0
    /\ UNCHANGED <<votes_latest, clock, pifam, fnVars, crawlVars>>

\* One call of check_milestone_crossed.
CheckMilestone(old, new) ==
    /\ old_vote' = old
    /\ new_vote' = new
    /\ milestone' = check_milestone_crossed(old, new)
    /\ UNCHANGED <<subscribers, user_preferences, votes_latest, clock, pifam,
                   user_states, loopVars, last_sent, sent_before, pruned, gone,
                   request, gap_call, crawlVars>>

-----------------------------------------------------------------------------
(* Rankings and gaps alone                                                 *)

MaxNominees == 3

GapIds == {"A", "B", "C"}
GapVotes == {0, 100, 150}

\* Sequences of nominee ids, repetitions included, up to MaxNominees long.
IdSeqs == UNION {[1..n -> GapIds] : n \in 0..MaxNominees}

\* The keys of a dict in insertion order: no repetition.
KeySeqs == {ids \in IdSeqs : \A i, j \in DOMAIN ids : ids[i] = ids[j] => i = j}

GapFrame == UNCHANGED <<subscribers, user_preferences, votes_latest, clock, pifam,
                        user_states, loopVars, last_sent, sent_before, pruned, gone,
                        old_vote, new_vote, milestone, request, crawlVars>>

\* Lines 310-311 of notification_service.py: a ranking of a list of ids by a
\* dict of votes, ids without votes counted as 0.
Rank(ids, votes) ==
    /\ gap_call' = [op |-> "rank", ids |-> ids, votes |-> votes,
                    ranking |-> SortedDesc(ids, votes)]
    /\ GapFrame

\* calculate_and_save_gap on the votes of one award, for one nominee.
CalculateGap(ids, votes, target) ==
    /\ gap_call' = [op |-> "gap", ids |-> ids, votes |-> votes,
                    target |-> target,
                    ranking |-> RankItems(ids, votes),
                    gap |-> calculate_gap(ids, votes, target)]
    /\ GapFrame

-----------------------------------------------------------------------------
(* The store alone: one request or one push at a time, recorded            *)

\* Bodies of POST /subscribe, the malformed ones included: an empty body,
\* one without endpoint, one whose endpoint is null, one without keys.
AllSubInfos ==
    {[endpoint |-> e, keys |-> k] : e \in Endpoints, k \in {"k1", "k2"}}
    \cup {EmptyMap, [keys |-> "k1"], [endpoint |-> None, keys |-> "k1"],
          [endpoint |-> "e1"]}

\* Bodies of POST /unsubscribe
AllUnsubscribeBodies ==
    {[endpoint |-> e] : e \in Endpoints \cup {None}} \cup {EmptyMap}

\* Bodies of POST /preferences: an endpoint that may be empty, a filter that
\* may hold an entry that is no pair, an interval on either side of 900.
FilterBad == << <<"A", "X">>, <<"A">> >>
AllPrefInputs ==
    {<<e, f, i>> : e \in Endpoints \cup {""},
                   f \in {<<>>, FilterXYZ, FilterBad},
                   i \in {600, 899, 900, 1800}}

\* What is recorded of a request: its body, its answer and the two tables
\* as they were when it arrived.
Recorded(op, arg, ok) ==
    [op |-> op, arg |-> arg, ok |-> ok, subscribers |-> subscribers,
     user_preferences |-> user_preferences]

StoreFrame == UNCHANGED <<votes_latest, clock, pifam, user_states, loopVars,
                          last_sent, sent_before, old_vote, new_vote,
                          milestone, gap_call, crawlVars>>

\* api_subscribe
StoreSubscribe(sub_info) ==
    LET r == add_subscriber(subscribers, sub_info)
    IN  /\ subscribers' = r.subscribers
        /\ request' = Recorded("subscribe", sub_info, r.ok)
        /\ pruned' = IF r.ok
                      THEN [pruned EXCEPT ![sub_info.endpoint] =
                                             @ \ {"subscribers"}]
                      ELSE pruned
        /\ gone' = IF r.ok THEN gone \ {sub_info.endpoint} ELSE gone
        /\ UNCHANGED user_preferences
        /\ StoreFrame

\* api_unsubscribe
StoreUnsubscribe(data) ==
    LET found == DOMAIN data # {} /\ "endpoint" \in DOMAIN data
        r == IF found
             THEN remove_subscription(subscribers, user_preferences,
                                      data.endpoint)
             ELSE [subscribers |-> subscribers,
                   user_preferences |-> user_preferences]
    IN  /\ subscribers' = r.subscribers
        /\ user_preferences' = r.user_preferences
        /\ request' = Recorded("unsubscribe", data, found)
        /\ UNCHANGED <<pruned, gone>>
        /\ StoreFrame

\* api_preferences (POST)
StoreSetPreferences(endpoint, nominee_filter, summary_interval) ==
    LET ok == preferences_valid(endpoint, nominee_filter, summary_interval)
    IN  /\ user_preferences' =
              IF ok THEN set_user_preferences(user_preferences, endpoint,
                                              nominee_filter, summary_interval)
              ELSE user_preferences
        /\ request' = Recorded("preferences",
                               <<endpoint, nominee_filter, summary_interval>>,
                               ok)
        /\ pruned' = IF ok
                      THEN [pruned EXCEPT ![endpoint] =
                                             @ \ {"user_preferences"}]
                      ELSE pruned
        /\ UNCHANGED gone
        /\ UNCHANGED subscribers
        /\ StoreFrame

\* One call of send_push_notification to a subscribed endpoint.
StorePush(endpoint, outcome) ==
    LET r == send_push_notification(subscribers, user_preferences,
                                    {endpoint}, outcome)
    IN  /\ endpoint \in DOMAIN subscribers
        /\ subscribers' = r.subscribers
        /\ user_preferences' = r.user_preferences
        /\ request' = Recorded("push", endpoint, outcome = "delivered")
        /\ pruned' = IF r.outcome = "permanent"
                      THEN [pruned EXCEPT ![endpoint] =
                                      {"subscribers", "user_preferences"}]
                      ELSE pruned
        /\ gone' = IF r.outcome = "permanent" THEN gone \cup {endpoint}
                   ELSE gone
        /\ StoreFrame

-----------------------------------------------------------------------------
(* Poll loop: WCAVoteCrawler.run, crawl_votes, _save_votes                 *)

\* Votes by key as crawl_votes builds them from the Data of a response.
VotesD1 == [nid \in {"A-X", "A-Y"} |-> IF nid = "A-X" THEN 900 ELSE 500]
VotesD2 == [nid \in {"A-X"} |-> 1000]
VotesD3 == [nid \in {"A-Y", "B-P"} |-> IF nid = "A-Y" THEN 500 ELSE 7]

\* What session.get and response.json() give: an exception, a body whose
\* Success is not True, a body with an item that does not parse, a body
\* with an empty Data, a body that parses.
CrawlResponses ==
    {[kind |-> "transport_error", success |-> FALSE, malformed |-> FALSE,
      data |-> EmptyMap],
     [kind |-> "json", success |-> FALSE, malformed |-> FALSE,
      data |-> VotesD2],
     [kind |-> "json", success |-> TRUE, malformed |-> TRUE,
      data |-> VotesD2],
     [kind |-> "json", success |-> TRUE, malformed |-> FALSE,
      data |-> EmptyMap]}
    \cup {[kind |-> "json", success |-> TRUE, malformed |-> FALSE,
           data |-> d] : d \in {VotesD1, VotesD2, VotesD3}}

CrawlFrame == UNCHANGED <<subscribers, user_preferences, clock, pifam, user_states,
                          loopVars, last_sent, sent_before, pruned, gone, fnVars>>

\* crawl_votes up to the first statement of _save_votes. fetched_at is the
\* time of the call, which differs from one call to the next.
Crawl(response) ==
    /\ crawl.pc = "idle"
    /\ crawl.calls < MaxCrawls
    /\ LET parsed == crawl_parse(response)
           t == crawl.calls + 1
       IN  IF parsed.none \/ parsed.votes_data = EmptyMap
           THEN /\ crawl' = [crawl EXCEPT !.calls = t,
                                          !.response = response,
                                          !.none = parsed.none]
                /\ UNCHANGED <<votes_latest, fetched_at, votes_history>>
           ELSE /\ votes_latest' =
                     upsert_latest(votes_latest, parsed.votes_data)
                /\ fetched_at' =
                     upsert_latest(fetched_at,
                        [k \in DOMAIN parsed.votes_data |-> t])
                /\ crawl' = [crawl EXCEPT !.pc = "history", !.calls = t,
                                          !.response = response,
                                          !.none = FALSE,
                                          !.votes_data = parsed.votes_data,
                                          !.now = t]
                /\ UNCHANGED votes_history
    /\ CrawlFrame

\* The second statement of _save_votes and the commit; crawl_votes returns
\* votes_data.
SaveHistory ==
    /\ crawl.pc = "history"
    /\ votes_history' = append_history(votes_history, crawl.votes_data,
                                       crawl.now)
    /\ crawl' = [crawl EXCEPT !.pc = "idle", !.votes_data = EmptyMap,
                              !.now = 0,
                              !.done = Append(@, [votes_data |->
                                                     crawl.votes_data,
                                                  now |-> crawl.now])]
    /\ UNCHANGED <<votes_latest, fetched_at>>
    /\ CrawlFrame

\* The second statement raises (sqlite3.Error): line 165 catches it and
\* crawl_votes returns None. Nothing is rolled back; the first statement
\* stays in the open transaction of db_conn, read by every user of db_conn
\* and committed by the next save.
SaveHistoryFails ==
    /\ crawl.pc = "history"
    /\ crawl' = [crawl EXCEPT !.pc = "idle", !.votes_data = EmptyMap,
                              !.now = 0, !.none = TRUE, !.failed = TRUE]
    /\ UNCHANGED <<votes_latest, fetched_at, votes_history>>
    /\ CrawlFrame

-----------------------------------------------------------------------------
(* Specification                                                           *)

Next ==
    \/ \E sub_info \in SubInfos : Subscribe(sub_info)
    \/ Unsubscribe("e1")
    \/ \E p \in PrefInputs : SetPreferences(p[1], p[2], p[3])
    \/ \E i \in DOMAIN VoteInputs :
          NoDecrease(votes_latest, VoteInputs[i]) /\ Fetch(VoteInputs[i])
    \/ \E d \in TickSeconds : Tick(d)
    \/ NotifyBegin
    \/ NotifySleep
    \/ NotifyRecipient
    \/ NotifyEnd

Spec == Init /\ [][Next]_vars

\* The notification loop with storage errors, for one recipient that stays
\* subscribed and keeps one filter.
NextFaults ==
    \/ Subscribe([endpoint |-> "e1", keys |-> "k1"])
    \/ SetPreferences("e1", FilterXYZ, 900)
    \/ \E i \in DOMAIN VoteInputs :
          NoDecrease(votes_latest, VoteInputs[i]) /\ Fetch(VoteInputs[i])
    \/ \E d \in TickSeconds : Tick(d)
    \/ NotifyBegin
    \/ NotifySleep
    \/ NotifyRecipient
    \/ NotifyEnd
    \/ NotifyAbort

SpecFaults == Init /\ [][NextFaults]_vars

\* check_milestone_crossed alone, over VoteSamples.
NextMilestone == \E old \in VoteSamples, new \in VoteSamples :
                    CheckMilestone(old, new)

SpecMilestone == Init /\ [][NextMilestone]_vars

\* The store under every request, well formed or not, from two endpoints,
\* and under the prunings of the dispatcher.
NextStore ==
    \/ \E sub_info \in AllSubInfos : StoreSubscribe(sub_info)
    \/ \E data \in AllUnsubscribeBodies : StoreUnsubscribe(data)
    \/ \E p \in AllPrefInputs : StoreSetPreferences(p[1], p[2], p[3])
    \/ \E e \in Endpoints, outcome \in TransportOutcomes :
          StorePush(e, outcome)

SpecStore == Init /\ [][NextStore]_vars

\* The poll loop alone, the statements of a save taken one at a time.
NextVotes ==
    \/ \E response \in CrawlResponses : Crawl(response)
    \/ SaveHistory
    \/ SaveHistoryFails

SpecVotes == Init /\ [][NextVotes]_vars

\* The two threads started at lines 17-21 of api.py, side by side: the poll
\* loop with a save that may fail, the notification loop
\* with every transport outcome and storage error, for one recipient. The
\* answers of the vote service are a failed request and two sets of counts.
FilterX == << <<"A", "X">> >>

LiveResponses ==
    {r \in CrawlResponses :
        r.kind = "transport_error" \/ (r.kind = "json" /\ r.success
                                         /\ ~r.malformed
                                         /\ r.data \in {VotesD1, VotesD2})}

NextLive ==
    \/ Subscribe([endpoint |-> "e1", keys |-> "k1"])
    \/ SetPreferences("e1", FilterX, 900)
    \/ \E response \in LiveResponses : Crawl(response)
    \/ SaveHistory
    \/ SaveHistoryFails
    \/ NotifyBegin
    \/ NotifySleep
    \/ NotifyRecipient
    \/ NotifyEnd
    \/ NotifyAbort

\* Both loops are "while True" bodies of daemon threads that only sleep
\* between steps (time.sleep at lines 258, 264, 397 and at line 267 of the
\* crawler): a thread that can take its next step takes it. Whether a step
\* succeeds or raises is not the thread's choice, so a step and its failure
\* are fair together. Requests of the clients are not fair.
PollFairness ==
    /\ WF_vars(\E response \in LiveResponses : Crawl(response))
    /\ WF_vars(SaveHistory \/ SaveHistoryFails)

NotifyFairness ==
    /\ WF_vars(NotifyBegin)
    /\ WF_vars(NotifySleep)
    /\ WF_vars(NotifyRecipient \/ NotifyAbort)
    /\ WF_vars(NotifyEnd)

SpecLive == Init /\ [][NextLive]_vars /\ PollFairness /\ NotifyFairness

\* The notification loop for two recipients with the same filter, while
\* the poll loop saves new votes at any moment of a cycle.
NextSnapshot ==
    \/ \E e \in Endpoints : Subscribe([endpoint |-> e, keys |-> "k1"])
    \/ \E e \in Endpoints : SetPreferences(e, FilterXYZ, 900)
    \/ \E i \in DOMAIN VoteInputs :
          NoDecrease(votes_latest, VoteInputs[i]) /\ Fetch(VoteInputs[i])
    \/ NotifyBegin
    \/ NotifySleep
    \/ NotifyRecipient
    \/ NotifyEnd

SpecSnapshot == Init /\ [][NextSnapshot]_vars

\* Filters over two awards: two nominees of each, and one nominee of the
\* first with two of the second.
FilterAB == << <<"A", "X">>, <<"A", "Y">>, <<"B", "P">>, <<"B", "Q">> >>
FilterAXB == << <<"A", "X">>, <<"B", "P">>, <<"B", "Q">> >>

\* Vote snapshots with nominees of two awards; the second changes the
\* leader of both and takes A-X, A-Y and B-Q over a milestone.
AwardVoteInputs ==
    << [k \in {"A-X", "A-Y", "B-P", "B-Q"} |->
            CASE k = "A-X" -> 900 [] k = "A-Y" -> 500
              [] k = "B-P" -> 900 [] k = "B-Q" -> 500],
       [k \in {"A-X", "A-Y", "B-P", "B-Q"} |->
            CASE k = "A-X" -> 1100 [] k = "A-Y" -> 2000
              [] k = "B-P" -> 900 [] k = "B-Q" -> 1000] >>

\* The notification loop for one recipient that tracks two awards.
NextAwards ==
    \/ Subscribe([endpoint |-> "e1", keys |-> "k1"])
    \/ \E f \in {FilterAB, FilterAXB} : SetPreferences("e1", f, 900)
    \/ \E i \in DOMAIN AwardVoteInputs :
          NoDecrease(votes_latest, AwardVoteInputs[i])
          /\ Fetch(AwardVoteInputs[i])
    \/ \E d \in TickSeconds : Tick(d)
    \/ NotifyBegin
    \/ NotifySleep
    \/ NotifyRecipient
    \/ NotifyEnd

SpecAwards == Init /\ [][NextAwards]_vars

\* Rankings and gaps alone, over every list of up to MaxNominees ids and
\* every assignment of GapVotes to them.
NextGaps ==
    \/ \E ids \in IdSeqs, votes \in [GapIds -> GapVotes] : Rank(ids, votes)
    \/ \E ids \in KeySeqs, target \in GapIds :
          \E votes \in [Range(ids) -> GapVotes] :
             CalculateGap(ids, votes, target)

SpecGaps == Init /\ [][NextGaps]_vars

\* The notification loop with storage errors, for two recipients that track
\* the same nominee.
NextIsolation ==
    \/ \E e \in Endpoints : Subscribe([endpoint |-> e, keys |-> "k1"])
    \/ \E e \in Endpoints : SetPreferences(e, FilterX, 900)
    \/ \E i \in DOMAIN VoteInputs :
          NoDecrease(votes_latest, VoteInputs[i]) /\ Fetch(VoteInputs[i])
    \/ NotifyBegin
    \/ NotifySleep
    \/ NotifyRecipient
    \/ NotifyEnd
    \/ NotifyAbort

SpecIsolation == Init /\ [][NextIsolation]_vars

-----------------------------------------------------------------------------
(* GET /get_votes: WCAVoteCrawler.get_vote_history                         *)

\* wca_nominees: the nominees of each award in the order of the catalog.
award_nominees ==
    [a \in {"A", "B"} |->
        IF a = "A" THEN <<"X", "Y", "Z">> ELSE <<"P", "Q">>]

\* The SELECT of lines 186-203: the rows of the award's nominee, from
\* start_at on when one is given ({} stands for no start_at), as
\* [vote_count, timestamp] in ascending order of fetched_at.
RECURSIVE InsertByTime(_, _)
InsertByTime(rows, row) ==
    IF rows = <<>> THEN <<row>>
    ELSE IF Head(rows).timestamp > row.timestamp
    THEN <<row>> \o rows
    ELSE <<Head(rows)>> \o InsertByTime(Tail(rows), row)

RECURSIVE SortedByTime(_)
SortedByTime(rows) ==
    IF rows = <<>> THEN <<>>
    ELSE InsertByTime(SortedByTime(SubSeq(rows, 1, Len(rows) - 1)),
                      rows[Len(rows)])

HistoryOf(history, award_id, nominee_id, start_at) ==
    LET rows == SelectSeq(history, LAMBDA row :
                    /\ row.nid = Nid(award_id, nominee_id)
                    /\ \A t \in start_at : row.fetched_at >= t)
    IN  SortedByTime([i \in DOMAIN rows |->
                        [vote_count |-> rows[i].vote_count,
                         timestamp |-> rows[i].fetched_at]])

\* Lines 229-243 for one nominee of the catalog. vote_counts holds the last
\* row of the nominee; the default of line 234 has the keys vote_count and
\* fetched_at, and line 241 reads the key timestamp: for a nominee without
\* a row the lookup raises KeyError.
NomineeWithVotes(history, award_id, nominee_id, start_at) ==
    LET vote_history == HistoryOf(history, award_id, nominee_id, start_at)
    IN  IF vote_history = <<>>
        THEN [raised |-> TRUE, nominee_id |-> nominee_id,
              current_vote_count |-> 0, vote_history |-> <<>>]
        ELSE [raised |-> FALSE, nominee_id |-> nominee_id,
              current_vote_count |->
                  vote_history[Len(vote_history)].vote_count,
              vote_history |-> vote_history]

\* Lines 245-251: the sort by int(current_vote_count), descending and
\* stable, and the cut to the first limit entries when limit > 0.
SortAndLimit(entries, limit) ==
    LET ids == [i \in DOMAIN entries |-> entries[i].nominee_id]
        counts == [id \in Range(ids) |->
                     (CHOOSE e \in Range(entries) :
                         e.nominee_id = id).current_vote_count]
        order == SortedDesc(ids, counts)
        sorted == [i \in DOMAIN order |->
                     CHOOSE e \in Range(entries) : e.nominee_id = order[i]]
    IN  IF limit > 0 /\ limit < Len(sorted)
        THEN SubSeq(sorted, 1, limit) ELSE sorted

\* get_vote_history: {"nominees": []} for an award that is not in the
\* catalog; otherwise the entries of the catalog's nominees, or the
\* exception raised while they are built.
get_vote_history(history, award_id, limit, start_at) ==
    IF award_id \notin DOMAIN award_nominees
    THEN [raised |-> FALSE, nominees |-> <<>>]
    ELSE LET nominees_list == award_nominees[award_id]
             entries == [i \in DOMAIN nominees_list |->
                           NomineeWithVotes(history, award_id,
                                            nominees_list[i], start_at)]
         IN  IF \E i \in DOMAIN entries : entries[i].raised
             THEN [raised |-> TRUE, nominees |-> <<>>]
             ELSE [raised |-> FALSE,
                   nominees |-> SortAndLimit(entries, limit)]

\* Arguments of GET /get_votes: an award of the catalog or not, a limit
\* (0 does not cut), no last_updated or a time.
HistoryAwards == {"A", "B", "C"}
HistoryLimits == {0, 1, 5}
HistoryStarts == {{}} \cup {{t} : t \in 1..(MaxCrawls + 1)}

\* api_get_votes: one call of get_vote_history on db_conn.
GetVoteHistory(award_id, limit, start_at) ==
    /\ request' = [op |-> "get_vote_history", award_id |-> award_id,
                   limit |-> limit, start_at |-> start_at,
                   history |-> votes_history,
                   result |-> get_vote_history(votes_history, award_id,
                                               limit, start_at)]
    /\ UNCHANGED <<subscribers, user_preferences, votes_latest, clock, pifam,
                   user_states, loopVars, last_sent, sent_before, pruned,
                   gone, old_vote, new_vote, milestone, gap_call, crawlVars>>

\* Fetches that give every nominee of award B a count, or one of them only.
VotesB1 == [nid \in {"B-P", "B-Q"} |-> IF nid = "B-P" THEN 7 ELSE 9]
VotesB2 == [nid \in {"B-P", "B-Q"} |-> IF nid = "B-P" THEN 12 ELSE 9]

HistoryResponses ==
    {[kind |-> "json", success |-> TRUE, malformed |-> FALSE, data |-> d] :
        d \in {VotesB1, VotesB2, VotesD3}}

\* The poll loop and the history requests of the API.
NextHistory ==
    \/ \E response \in HistoryResponses : Crawl(response)
    \/ SaveHistory
    \/ SaveHistoryFails
    \/ \E award_id \in HistoryAwards, limit \in HistoryLimits,
          start_at \in HistoryStarts :
            GetVoteHistory(award_id, limit, start_at)

SpecHistory == Init /\ [][NextHistory]_vars

-----------------------------------------------------------------------------
(* PiFam gap tracker: PiFamGapTracker.run, calculate_and_save_gap          *)

SPECIFIC_AWARD == "3"
SPECIFIC_NOMINEE == "34"

MaxGapCycles == 4

\* Seconds from one cycle to the next: run() starts a cycle when the second
\* of the wall clock is a multiple of 10.
GapCycleSeconds == {10, 590, 600}

\* votes_data[award_id] as the fetch builds it: the nominee ids in the
\* order of the response and their counts.
AwardVotes(ids, votes) == [ids |-> ids, votes |-> votes]

GapVotesOf(v34, v35) ==
    [nid \in {"34", "35"} |-> IF nid = "34" THEN v34 ELSE v35]

\* What session.get and response.json() give: an exception, a body whose
\* Success is not True, a body with an empty Data, one without the tracked
\* award, one without the tracked nominee, bodies with both.
GapResponses ==
    {[kind |-> "transport_error", success |-> FALSE, data |-> EmptyMap],
     [kind |-> "json", success |-> FALSE,
      data |-> ("3" :> AwardVotes(<<"34", "35">>, GapVotesOf(100, 150)))],
     [kind |-> "json", success |-> TRUE, data |-> EmptyMap],
     [kind |-> "json", success |-> TRUE,
      data |-> ("4" :> AwardVotes(<<"34", "35">>, GapVotesOf(100, 150)))],
     [kind |-> "json", success |-> TRUE,
      data |-> ("3" :> AwardVotes(<<"35">>, [nid \in {"35"} |-> 150]))]}
    \cup {[kind |-> "json", success |-> TRUE,
           data |-> ("3" :> AwardVotes(<<"34", "35">>, v))] :
             v \in {GapVotesOf(100, 150), GapVotesOf(150, 100)}}

\* fetch_votes_from_api: {} for None, {votes_data} otherwise.
fetch_votes_from_api(response) ==
    IF response.kind = "transport_error" \/ ~response.success
    THEN {}
    ELSE {response.data}

\* should_save_history: True when no history row has been saved by this
\* tracker, or 600 seconds after the last one.
should_save_history_always(t, last_history_save) == TRUE

should_save_history(t, last_history_save) ==
    \/ last_history_save = {}
    \/ \E last \in last_history_save : t - last >= 600

\* calculate_and_save_gap at time t: the tracker after the call. Nothing is
\* written when the fetch gives None or an empty dict, or the award or the
\* nominee is missing (lines 248-250, 259-261).
calculate_and_save_gap(p, response, t) ==
    LET fetched == fetch_votes_from_api(response)
        usable == {d \in fetched : DOMAIN d # {} /\ SPECIFIC_AWARD \in DOMAIN d}
        gaps == UNION {calculate_gap(d[SPECIFIC_AWARD].ids,
                                     d[SPECIFIC_AWARD].votes,
                                     SPECIFIC_NOMINEE) : d \in usable}
        rows == {[award_id |-> SPECIFIC_AWARD, nominee_id |-> SPECIFIC_NOMINEE,
                  fetched_at |-> t] @@ g : g \in gaps}
        save_to_history == should_save_history(t, p.last_history_save)
    IN  IF rows = {} THEN p
        ELSE [p EXCEPT
                !.pifam_gap_tracking = rows,
                !.pifam_gap_history =
                    IF save_to_history
                    THEN Append(@, CHOOSE row \in rows : TRUE) ELSE @,
                !.last_history_save = IF save_to_history THEN {t} ELSE @]

\* One pass of run() that starts a cycle, d seconds after the last one.
GapCycle(d, response) ==
    /\ pifam.cycles < MaxGapCycles
    /\ pifam' = [calculate_and_save_gap(pifam, response, pifam.now + d)
                    EXCEPT !.now = pifam.now + d,
                           !.cycles = pifam.cycles + 1,
                           !.response = response]
    /\ UNCHANGED <<subscribers, user_preferences, votes_latest, clock,
                   user_states, loopVars, last_sent, sent_before, pruned,
                   gone, fnVars, crawlVars>>

NextTracker ==
    \E d \in GapCycleSeconds, response \in GapResponses :
        GapCycle(d, response)

SpecTracker == Init /\ [][NextTracker]_vars

-----------------------------------------------------------------------------
(* Properties                                                              *)

\* The nominees a recipient of the running cycle tracks: the entries of its
\* filter that are in the catalog and in the votes read for the cycle.
Tracked(endpoint) ==
    {Nid(f[1], f[2]) : f \in Range(all_preferences[endpoint].nominee_filter)}
    \cap DOMAIN nominee_metadata \cap DOMAIN current_votes

\* The positions in an entry's events of the events of some kinds for a nominee.
EventsFor(entry, kinds, nid) ==
    {i \in DOMAIN entry.events :
        entry.events[i].kind \in kinds /\ entry.events[i].nid = nid}

EventsOfKinds(entry, kinds) ==
    {i \in DOMAIN entry.events : entry.events[i].kind \in kinds}

\* C1: a recipient whose prev_votes is empty when the cycle reaches it is
\* sent no event at all, and its prev_votes becomes the current vote count
\* of exactly the nominees it tracks.
C1_ColdStart ==
    \A i \in DOMAIN log :
        LET entry == log[i]
            e == entry.endpoint
        IN  (entry.prev_votes = EmptyMap /\ Tracked(e) # {})
            => /\ entry.events = <<>>
               /\ e \in DOMAIN user_states
               /\ user_states[e].prev_votes =
                     [nid \in Tracked(e) |-> current_votes[nid]]

\* A cold start on votes past a milestone, the summary interval elapsed.
C1_Witness ==
    \E i \in DOMAIN log :
        /\ log[i].prev_votes = EmptyMap
        /\ Tracked(log[i].endpoint) = {"A-X", "A-Y", "A-Z"}
        /\ current_votes["A-X"] = 12000
        /\ now - log[i].last_summary_time >= log[i].summary_interval

\* The schedule of steps as the design states it.
ScheduleStep(count) ==
    CASE count <= 10000 -> 1000
      [] count > 10000 /\ count <= 50000 -> 5000
      [] count > 50000 /\ count <= 200000 -> 10000
      [] count > 200000 /\ count <= 1000000 -> 50000
      [] OTHER -> 100000

\* C2: check_milestone_crossed(prev, curr) gives a milestone exactly when
\* curr > prev and the floor of prev under the step of curr is below the
\* floor of curr; the milestone is that floor of curr; none when curr <= prev.
C2_Milestone ==
    LET step == ScheduleStep(new_vote)
        old_floor == (old_vote \div step) * step
        new_floor == (new_vote \div step) * step
        fires == new_vote > old_vote /\ old_floor < new_floor
    IN  /\ fires => milestone = {new_floor}
        /\ ~fires => milestone = {}
        /\ new_vote <= old_vote => milestone = {}

\* A crossing over several steps, judged by the step of the new count.
C2_Witness == old_vote = 900 /\ new_vote = 12000 /\ milestone = {10000}

\* C3: no recipient is sent more than one Milestone event for one nominee in
\* one cycle.
C3_OneMilestonePerNominee ==
    \A i \in DOMAIN log :
        \A nid \in DOMAIN nominee_metadata :
            Cardinality(EventsFor(log[i], {"Milestone"}, nid)) <= 1

\* A recipient evaluated on votes going from 10,050 to 10,200 for "A-Z".
C4_Case(entry) ==
    /\ entry.branch = "eval"
    /\ "A-Z" \in Range(entry.nominee_ids)
    /\ Get(entry.prev_votes, "A-Z", 0) = 10050
    /\ Get(current_votes, "A-Z", 0) = 10200

\* C4 as stated: from 10,050 to 10,200 exactly one Milestone event fires.
C4_ExactlyOneMilestone ==
    \A i \in DOMAIN log :
        C4_Case(log[i])
        => Cardinality(EventsFor(log[i], {"Milestone"}, "A-Z")) = 1

\* C4 amended: from 10,050 to 10,200 no Milestone event fires, both counts
\* having the floor 10,000 under the step 5,000 of the new count.
C4_NoMilestone ==
    \A i \in DOMAIN log :
        C4_Case(log[i]) => EventsFor(log[i], {"Milestone"}, "A-Z") = {}

C4_Witness == \E i \in DOMAIN log : C4_Case(log[i])

\* C5: a milestone sent to a recipient for a nominee in an earlier cycle is
\* not sent again in a later one, the recipient having stayed active with
\* the nominee tracked and the votes never having decreased.
C5_NoRepeatedMilestone ==
    \A i \in DOMAIN log :
        \A j \in DOMAIN log[i].events :
            log[i].events[j].kind = "Milestone"
            => <<log[i].events[j].nid, log[i].events[j].value>>
               \notin log[i].before

\* The award group of a nominee among the nominees an entry's recipient
\* tracks, each counted once.
Group(entry, nid) ==
    {m \in Range(entry.nominee_ids) :
        nominee_metadata[m].award_id = nominee_metadata[nid].award_id}

\* The index of a nominee in the ranking of its group by the votes v: the
\* number of nominees of the group ranked before it, more votes first and
\* the order of the filter among equal votes.
RankOf(entry, v, nid) ==
    Cardinality({m \in Group(entry, nid) :
        \/ Get(v, m, 0) > Get(v, nid, 0)
        \/ /\ Get(v, m, 0) = Get(v, nid, 0)
           /\ IndexOf(entry.nominee_ids, m) < IndexOf(entry.nominee_ids, nid)})

\* C6: a tracked nominee whose index in the current ranking of its award
\* group is lower than its index in the previous ranking is sent exactly
\* one event, NewLeader when the new index is 0 and RankUp otherwise; any
\* other nominee is sent no rank event.
C6_RankChange ==
    \A i \in DOMAIN log :
        log[i].branch = "eval" =>
        \A nid \in Range(log[i].nominee_ids) :
            LET curr == RankOf(log[i], current_votes, nid)
                prev == RankOf(log[i], log[i].prev_votes, nid)
                evs == EventsFor(log[i], {"NewLeader", "RankUp"}, nid)
            IN  IF curr < prev
                THEN /\ Cardinality(evs) = 1
                     /\ \A j \in evs :
                           log[i].events[j].kind =
                              IF curr = 0 THEN "NewLeader" ELSE "RankUp"
                ELSE evs = {}

\* C7: a recipient evaluated on one award group is sent exactly one
\* RaceSummary, with the leader, the leader's votes and the gap to the
\* runner-up, when its interval has elapsed and the group has at least two
\* tracked nominees, and no RaceSummary otherwise.
C7_Summary ==
    \A i \in DOMAIN log :
        LET entry == log[i]
            G == Range(entry.nominee_ids)
            due == now - entry.last_summary_time >= entry.summary_interval
            summaries == EventsOfKinds(entry, {"RaceSummary"})
        IN  (entry.branch = "eval" /\ \A m \in G : Group(entry, m) = G) =>
            IF due /\ Cardinality(G) >= 2
            THEN /\ Cardinality(summaries) = 1
                 /\ \A j \in summaries :
                      LET leader == CHOOSE m \in G :
                                       RankOf(entry, current_votes, m) = 0
                          second == CHOOSE m \in G :
                                       RankOf(entry, current_votes, m) = 1
                      IN  /\ entry.events[j].nid = leader
                          /\ entry.events[j].value = current_votes[leader]
                          /\ entry.events[j].gap =
                                current_votes[leader] - current_votes[second]
            ELSE summaries = {}

OnlyTransient(entry) ==
    /\ \E j \in DOMAIN entry.events : entry.events[j].outcome = "transient"
    /\ \A j \in DOMAIN entry.events : entry.events[j].outcome # "permanent"

\* C10: the pushes of a recipient failing with a transient error leave
\* subscribers and user_preferences as they were, the recipient still in
\* get_all_user_preferences.
C10_TransientStep ==
    (Len(log') = Len(log) + 1 /\ OnlyTransient(log'[Len(log')])) =>
        /\ subscribers' = subscribers
        /\ user_preferences' = user_preferences
        /\ DOMAIN get_all_user_preferences(subscribers', user_preferences')
              = DOMAIN get_all_user_preferences(subscribers, user_preferences)

C10_Transient == [][C10_TransientStep]_vars

\* A transient failure for a recipient that is active.
C10_Witness ==
    \E i \in DOMAIN log :
        /\ OnlyTransient(log[i])
        /\ log[i].endpoint \in
              DOMAIN get_all_user_preferences(subscribers, user_preferences)

\* C11: get_all_user_preferences returns exactly the endpoints that have a
\* row in user_preferences and a row in subscribers, so no preference whose
\* subscriber row is absent, whatever requests and prunings came before.
C11_ActiveJoin ==
    LET r == get_all_user_preferences(subscribers, user_preferences)
    IN  /\ DOMAIN r = {e \in DOMAIN user_preferences :
                          e \in DOMAIN subscribers}
        /\ \A e \in DOMAIN user_preferences :
              e \notin DOMAIN subscribers => e \notin DOMAIN r

\* One endpoint with both rows and one with a preference row only.
C11_Witness ==
    /\ "e1" \in DOMAIN user_preferences /\ "e1" \in DOMAIN subscribers
    /\ "e2" \in DOMAIN user_preferences /\ "e2" \notin DOMAIN subscribers

\* C12: a POST /preferences with an interval under 900 s or a filter entry
\* that is no pair is refused and leaves user_preferences as it was; any
\* other one naming an endpoint is accepted and leaves exactly one row for
\* the endpoint, with the filter and the interval of the body, the other
\* rows as they were; every stored row has summary_interval >= 900.
C12_SetPreferences ==
    /\ request.op = "preferences" =>
          LET e == request.arg[1]
              f == request.arg[2]
              i == request.arg[3]
              before == request.user_preferences
          IN  IF i < 900 \/ \E k \in DOMAIN f : Len(f[k]) # 2
              THEN ~request.ok /\ user_preferences = before
              ELSE e # "" =>
                   /\ request.ok
                   /\ user_preferences =
                         [x \in DOMAIN before \cup {e} |->
                             IF x = e
                             THEN [nominee_filter |-> f, summary_interval |-> i]
                             ELSE before[x]]
    /\ \A e \in DOMAIN user_preferences :
          user_preferences[e].summary_interval >= 900

\* An interval of 899 s refused for an endpoint that keeps its earlier row.
C12_Witness ==
    /\ request.op = "preferences"
    /\ request.arg[3] = 899
    /\ request.arg[1] \in DOMAIN user_preferences
    /\ ~request.ok

\* C13: a POST /subscribe whose body is empty or carries no endpoint is
\* refused and leaves subscribers as it was; any other one leaves exactly
\* one row for its endpoint, holding the keys of the body, the other rows
\* as they were.
C13_Subscribe ==
    request.op = "subscribe" =>
        LET sub_info == request.arg
            before == request.subscribers
        IN  IF \/ DOMAIN sub_info = {}
               \/ "endpoint" \notin DOMAIN sub_info
               \/ sub_info.endpoint = None
            THEN ~request.ok /\ subscribers = before
            ELSE subscribers =
                    [x \in DOMAIN before \cup {sub_info.endpoint} |->
                        IF x = sub_info.endpoint
                        THEN Get(sub_info, "keys", None)
                        ELSE before[x]]

\* C14: a POST /unsubscribe for an endpoint leaves no row of the endpoint
\* in subscribers nor in user_preferences, leaves the rows of every other
\* endpoint as they were, and changes nothing when the endpoint was not
\* subscribed.
C14_Unsubscribe ==
    (request.op = "unsubscribe" /\ request.ok
        /\ request.arg.endpoint \in Endpoints) =>
        LET e == request.arg.endpoint
        IN  /\ e \notin DOMAIN subscribers
            /\ e \notin DOMAIN user_preferences
            /\ subscribers =
                  Restrict(request.subscribers,
                           DOMAIN request.subscribers \ {e})
            /\ user_preferences =
                  Restrict(request.user_preferences,
                           DOMAIN request.user_preferences \ {e})
            /\ e \notin DOMAIN request.subscribers =>
                  /\ subscribers = request.subscribers
                  /\ user_preferences = request.user_preferences

\* The keys of the saves completed so far.
EverFetched == UNION {DOMAIN crawl.done[i].votes_data : i \in DOMAIN crawl.done}

\* C15: between calls of crawl_votes, every save so far having succeeded,
\* votes_latest has one row for each key ever fetched and no other, and the
\* row of each key of the most recent fetch holds the vote count and the
\* fetched_at of that fetch.
C15_LatestRows ==
    (crawl.pc = "idle" /\ ~crawl.failed) =>
        /\ DOMAIN votes_latest = EverFetched
        /\ DOMAIN fetched_at = EverFetched
        /\ crawl.done # <<>> =>
              LET last == crawl.done[Len(crawl.done)]
              IN  \A k \in DOMAIN last.votes_data :
                     /\ votes_latest[k] = last.votes_data[k]
                     /\ fetched_at[k] = last.now

\* A fetch of A-X and A-Y followed by a fetch of A-X alone.
C15_Witness ==
    /\ crawl.pc = "idle" /\ ~crawl.failed
    /\ Len(crawl.done) = 2
    /\ crawl.done[1].votes_data = VotesD1
    /\ crawl.done[2].votes_data = VotesD2

\* C16: every step leaves the rows votes_history had, in their order; a save
\* that completes adds after them exactly one row for each key of its fetch,
\* with the vote count and the fetched_at of the fetch; no other step adds
\* a row.
C16_Step ==
    /\ Len(votes_history') >= Len(votes_history)
    /\ SubSeq(votes_history', 1, Len(votes_history)) = votes_history
    /\ IF Len(crawl'.done) = Len(crawl.done) + 1
       THEN LET added == SubSeq(votes_history', Len(votes_history) + 1,
                                Len(votes_history'))
            IN  /\ Len(added) = Cardinality(DOMAIN crawl.votes_data)
                /\ \A k \in DOMAIN crawl.votes_data :
                      \E i \in DOMAIN added :
                         added[i] = [nid |-> k,
                                     vote_count |-> crawl.votes_data[k],
                                     fetched_at |-> crawl.now]
       ELSE votes_history' = votes_history

C16_AppendOnly == [][C16_Step]_vars

\* Two completed saves that both fetched one key: two rows for it.
C16_Witness ==
    /\ Len(crawl.done) >= 2
    /\ \E i \in DOMAIN votes_history, j \in DOMAIN votes_history :
          /\ i < j
          /\ votes_history[i].nid = votes_history[j].nid
          /\ votes_history[i].fetched_at < votes_history[j].fetched_at

\* C17: at every moment, what db_conn shows has for each row of
\* votes_latest a row of votes_history of the same key, vote count and
\* fetched_at, and for each row of votes_history a row of votes_latest of
\* the same key that is of that fetch or of a later one.
C17_OneUnit ==
    /\ \A k \in DOMAIN votes_latest :
          \E i \in DOMAIN votes_history :
             votes_history[i] = [nid |-> k, vote_count |-> votes_latest[k],
                                 fetched_at |-> fetched_at[k]]
    /\ \A i \in DOMAIN votes_history :
          /\ votes_history[i].nid \in DOMAIN votes_latest
          /\ fetched_at[votes_history[i].nid] >= votes_history[i].fetched_at

\* C18: a call of crawl_votes whose request raises, whose body has no true
\* Success or whose payload does not parse returns None and leaves
\* votes_latest and votes_history as they were.
C18_Step ==
    (/\ crawl'.calls = crawl.calls + 1
     /\ \/ crawl'.response.kind = "transport_error"
        \/ ~crawl'.response.success
        \/ crawl'.response.malformed) =>
        /\ crawl'.none
        /\ crawl'.pc = "idle"
        /\ UNCHANGED <<votes_latest, fetched_at, votes_history>>

C18_FailedFetch == [][C18_Step]_vars

\* A body without a true Success, carrying votes, after a completed save.
C18_Witness ==
    /\ crawl.pc = "idle"
    /\ crawl.response.kind = "json"
    /\ ~crawl.response.success
    /\ crawl.response.data # EmptyMap
    /\ crawl.none
    /\ votes_history # <<>>

\* A cycle of the notification loop has met a failure: a push of this cycle
\* was not delivered, or the cycle was ended by a storage error.
NotifyFailed ==
    \E i \in DOMAIN log :
        \/ log[i].branch = "error"
        \/ \E j \in DOMAIN log[i].events : log[i].events[j].outcome # "ok"

\* The notification loop has just read the store for a new cycle.
NotifyStarted == pc \in {"loop", "sleep"} /\ log = <<>>

\* The n-th call of crawl_votes has failed: the request, the parsing or the
\* save raised, or the answer was not a success, and the call returned None.
PollFailed(n) == crawl.calls = n /\ crawl.pc = "idle" /\ crawl.none

\* C19: no failure stops a loop. After a cycle of the notification loop in
\* which a push failed or a storage error was raised, the loop opens another
\* cycle; after a call of crawl_votes that failed, the poll loop makes the
\* next call (for every call but the last one the bound lets through).
C19_LoopsGoOn ==
    /\ NotifyFailed ~> NotifyStarted
    /\ \A n \in 1..(MaxCrawls - 1) : PollFailed(n) ~> (crawl.calls = n + 1)

\* A storage error has ended a cycle of the notification loop after a save
\* of the poll loop had failed, and the poll loop has calls left.
C19_Witness ==
    /\ NotifyFailed
    /\ \E i \in DOMAIN log : log[i].branch = "error"
    /\ crawl.failed
    /\ \E n \in 1..(MaxCrawls - 1) : PollFailed(n)

\* The recipients of the running cycle whose turn comes after the one being
\* processed.
Remaining == IF todo = <<>> THEN {} ELSE Range(Tail(todo))

\* The step that ends a cycle leaves every recipient whose turn was still to
\* come, and who tracks a nominee with votes, with the votes of the cycle as
\* its previous votes (line 389).
C20_Step ==
    (pc = "loop" /\ pc' # "loop") =>
        \A e \in Remaining :
            LET ids == NomineeIds(all_preferences[e].nominee_filter,
                                  current_votes)
            IN  ids # <<>> =>
                    /\ e \in DOMAIN user_states'
                    /\ user_states'[e].prev_votes = VotesOf(ids, current_votes)

\* C20: an error raised while one recipient is processed does not end the
\* cycle: the recipients after it are still evaluated and have their state
\* advanced.
C20_Isolation == [][C20_Step]_vars

\* The ids of a ranking, whether it is a list of ids or of (id, votes) pairs.
RankedIds ==
    IF gap_call.op = "gap"
    THEN [i \in DOMAIN gap_call.ranking |-> gap_call.ranking[i][1]]
    ELSE gap_call.ranking

\* C21: a ranking is a permutation of its input, in descending order of
\* votes, and entries with equal votes are in the order of the input.
C21_StableRanking ==
    gap_call.op \in {"rank", "gap"} =>
        LET ids == gap_call.ids
            r == RankedIds
            v(x) == Get(gap_call.votes, x, 0)
            n == Len(ids)
        IN  /\ Len(r) = n
            /\ \E p \in [1..n -> 1..n] :
                  /\ \A i, j \in 1..n : p[i] = p[j] => i = j
                  /\ \A i \in 1..n : r[i] = ids[p[i]]
                  /\ \A i, j \in 1..n :
                        i < j => \/ v(r[i]) > v(r[j])
                                 \/ v(r[i]) = v(r[j]) /\ p[i] < p[j]
            /\ gap_call.op = "gap" =>
                  \A i \in 1..n : gap_call.ranking[i][2] = v(r[i])

\* The example of the specification: (A,100), (B,150), (C,150) ranks as
\* (B,150), (C,150), (A,100).
C21_Witness ==
    /\ gap_call.op = "gap"
    /\ gap_call.ids = <<"A", "B", "C">>
    /\ gap_call.votes = [x \in GapIds |-> IF x = "A" THEN 100 ELSE 150]
    /\ gap_call.target = "C"
    /\ gap_call.ranking = << <<"B", 150>>, <<"C", 150>>, <<"A", 100>> >>

\* The gap record of the last call, when it found its nominee.
GapRecord == CHOOSE g \in gap_call.gap : TRUE

HasGapRecord == gap_call.op = "gap" /\ gap_call.gap # {}

\* C22: the nominee above is None exactly for the first of the ranking and
\* the nominee below exactly for the last; otherwise gap_above is the votes
\* of the entry just above minus the target's and gap_below the target's
\* votes minus those of the entry just below; no gap is negative.
C22_Gaps ==
    HasGapRecord =>
        LET g == GapRecord
            r == gap_call.ranking
            k == g.actual_rank
        IN  /\ k \in DOMAIN r
            /\ r[k] = <<gap_call.target, g.current_votes>>
            /\ (g.nominee_above_id = None) <=> (k = 1)
            /\ (g.gap_above = {}) <=> (k = 1)
            /\ (g.nominee_below_id = None) <=> (k = Len(r))
            /\ (g.gap_below = {}) <=> (k = Len(r))
            /\ k > 1 => /\ g.nominee_above_id = r[k - 1][1]
                        /\ g.gap_above = {r[k - 1][2] - g.current_votes}
            /\ k < Len(r) => /\ g.nominee_below_id = r[k + 1][1]
                             /\ g.gap_below = {g.current_votes - r[k + 1][2]}
            /\ \A x \in g.gap_above \cup g.gap_below \cup {g.gap_to_top} :
                  x >= 0

\* A nominee between two others, with positive gaps on both sides.
C22_Witness ==
    /\ HasGapRecord
    /\ Len(gap_call.ranking) = 3
    /\ GapRecord.actual_rank = 2
    /\ GapRecord.gap_above = {50}
    /\ GapRecord.gap_below = {100}

\* C23 as stated: gap_to_top is 0 exactly when the nominee is first.
C23_ZeroIffFirst ==
    HasGapRecord => (GapRecord.gap_to_top = 0 <=> GapRecord.actual_rank = 1)

\* C23: gap_to_top is the votes of the first of the ranking minus the
\* nominee's votes: it is 0 for the first of the ranking, and 0 exactly
\* when the nominee has as many votes as the first.
C23_ZeroIffLevel ==
    HasGapRecord =>
        /\ GapRecord.gap_to_top =
              gap_call.ranking[1][2] - GapRecord.current_votes
        /\ GapRecord.actual_rank = 1 => GapRecord.gap_to_top = 0
        /\ GapRecord.gap_to_top = 0 <=>
              GapRecord.current_votes = gap_call.ranking[1][2]

\* The second of two nominees with equal votes: its gap to the top is 0.
C23_Witness ==
    /\ HasGapRecord
    /\ GapRecord.actual_rank = 2
    /\ GapRecord.gap_to_top = 0

\* C24: in a cycle that evaluates a recipient, a tracked nominee without an
\* entry in the recipient's prev_votes gets no RankUp and no NewLeader.
C24_NewNomineeNotCompared ==
    \A i \in DOMAIN log :
        log[i].branch = "eval" =>
        \A nid \in Range(log[i].nominee_ids) :
            nid \notin DOMAIN log[i].prev_votes =>
                EventsFor(log[i], {"NewLeader", "RankUp"}, nid) = {}

\* The recipient whose turn it is is evaluated for events in this cycle: it
\* tracks a nominee with votes and has previous votes (no cold start).
Evaluated(e) ==
    /\ pc = "loop"
    /\ todo # <<>>
    /\ Head(todo) = e
    /\ NomineeIds(all_preferences[e].nominee_filter, current_votes) # <<>>
    /\ e \in DOMAIN user_states
    /\ ~IsColdStart(user_states[e].prev_votes)

\* The step that ends the turn of an evaluated recipient leaves it with the
\* votes of the cycle, for its tracked nominees and no other, as prev_votes.
C25_Step ==
    \A e \in Endpoints :
        (Evaluated(e) /\ todo' # todo) =>
            /\ e \in DOMAIN user_states'
            /\ user_states'[e].prev_votes =
                 VotesOf(NomineeIds(all_preferences[e].nominee_filter,
                                    current_votes), current_votes)

\* C25: after a recipient was evaluated in a cycle, its prev_votes are the
\* votes of that cycle for exactly its tracked nominees, whatever became of
\* the pushes.
C25_StateAdvance == [][C25_Step]_vars

\* The step that ends a cycle, whether the cycle visited its recipients or
\* went to sleep right after its reads, leaves no state for an endpoint that
\* is not in the active preferences read in that cycle.
C26_Step ==
    /\ (pc = "idle" /\ pc' = "sleep") =>
          DOMAIN user_states' \subseteq
             DOMAIN get_all_user_preferences(subscribers, user_preferences)
    /\ (pc = "loop" /\ pc' = "idle") =>
          DOMAIN user_states' \subseteq DOMAIN all_preferences

\* C26: at the end of every cycle the recipient states are those of active
\* recipients only, also when the cycle found no active preference or no
\* vote.
C26_GarbageCollected == [][C26_Step]_vars

\* The step that ends the turn of an active recipient in a cycle leaves its
\* prev_votes, if it has a state, in agreement with the votes the cycle
\* read: they are what the next cycle starts from.
C27_Step ==
    \A e \in Endpoints :
        (pc = "loop" /\ todo # <<>> /\ Head(todo) = e /\ todo' # todo
            /\ e \in DOMAIN user_states') =>
        \A nid \in DOMAIN user_states'[e].prev_votes :
            user_states'[e].prev_votes[nid] = Get(current_votes, nid, 0)

\* C27: while a recipient is in the active preferences, the prev_votes a
\* cycle starts from are the votes of the cycle just before it.
C27_NeverStale == [][C27_Step]_vars

\* The place of a kind of event in the order of emission.
KindOrder(kind) ==
    CASE kind = "RaceSummary" -> 0
      [] kind \in {"NewLeader", "RankUp"} -> 1
      [] kind = "Milestone" -> 2

AwardOf(event) == nominee_metadata[event.nid].award_id

C29_NoRetry ==
    \A i \in DOMAIN log :
        \A j \in DOMAIN log[i].events :
            LET ev == log[i].events[j]
            IN  /\ ev.attempted \subseteq {log[i].endpoint}
                /\ ev.kind = "Milestone" =>
                      <<ev.nid, ev.value, "failed">> \notin log[i].before

\* C30: every row of user_preferences has a row of subscribers with the
\* same endpoint.
C30_Referential == DOMAIN user_preferences \subseteq DOMAIN subscribers

\* The events of a log entry without what became of their pushes.
Computed(entry) ==
    [j \in DOMAIN entry.events |->
        [kind |-> entry.events[j].kind, nid |-> entry.events[j].nid,
         value |-> entry.events[j].value, gap |-> entry.events[j].gap]]

\* C31: whatever the poll loop saves during a cycle, every recipient the
\* cycle has visited was matched against the votes read at the start of the
\* cycle, its events were computed from them and its prev_votes are taken
\* from them.
C31_Snapshot ==
    pc = "loop" =>
        \A i \in DOMAIN log :
            LET entry == log[i]
                e == entry.endpoint
            IN  entry.branch \in {"cold", "eval"} =>
                  /\ entry.nominee_ids =
                        NomineeIds(all_preferences[e].nominee_filter,
                                   current_votes)
                  /\ e \in DOMAIN user_states
                  /\ user_states[e].prev_votes =
                        VotesOf(entry.nominee_ids, current_votes)
                  /\ entry.branch = "eval" =>
                        Computed(entry) =
                          RecipientEvents(entry.nominee_ids, current_votes,
                                          entry.prev_votes,
                                          entry.last_summary_time, now,
                                          entry.summary_interval)

\* Two recipients evaluated in one cycle, both with events, after the poll
\* loop has saved other votes than those the cycle read.
C31_Witness ==
    /\ pc = "loop"
    /\ Len(log) = 2
    /\ \A i \in DOMAIN log : log[i].branch = "eval" /\ log[i].events # <<>>
    /\ \E nid \in DOMAIN current_votes :
          votes_latest[nid] # current_votes[nid]
    /\ \E nid \in DOMAIN current_votes :
          /\ votes_latest[nid] # current_votes[nid]
          /\ \E i \in DOMAIN log :
                log[i].prev_votes[nid] # current_votes[nid]

\* C32: a milestone returned by check_milestone_crossed(old, new) is a
\* positive multiple of the step of new, above old and at most new.
C32_MilestoneRange ==
    \A m \in milestone :
        /\ m > 0
        /\ m % get_milestone_step(new_vote) = 0
        /\ old_vote < m
        /\ m <= new_vote

\* A crossing of 10,000 from just below it to just above it, where the step
\* changes from 1,000 to 5,000.
C32_Witness == old_vote = 9999 /\ new_vote = 10001 /\ milestone = {10000}

\* The positions of the summaries among the pushes of a log entry.
Summaries(entry) ==
    {j \in DOMAIN entry.events : entry.events[j].kind = "RaceSummary"}

\* The awards of a recipient, in iteration order, that have at least two
\* tracked nominees.
SummaryAwards(ids) ==
    SelectSeq(AwardOrder(ids), LAMBDA a : Len(AwardGroup(ids, a)) >= 2)

\* C33: a recipient gets at most one RaceSummary in a cycle; it is for the
\* first award in iteration order that has at least two tracked nominees,
\* and last_summary_time is then the time of the cycle.
C33_OneSummary ==
    \A i \in DOMAIN log :
        LET entry == log[i]
            e == entry.endpoint
        IN  /\ Cardinality(Summaries(entry)) <= 1
            /\ \A j \in Summaries(entry) :
                  /\ SummaryAwards(entry.nominee_ids) # <<>>
                  /\ AwardOf(entry.events[j])
                        = Head(SummaryAwards(entry.nominee_ids))
                  /\ (pc = "loop" /\ e \in DOMAIN user_states) =>
                        user_states[e].last_summary_time = now

\* A cycle in which the summary is due for a recipient that tracks two
\* nominees of each of two awards: the first award gets the summary and the
\* second gets other pushes only.
C33_Witness ==
    /\ pc = "loop"
    /\ \E i \in DOMAIN log :
          LET entry == log[i]
          IN  /\ Len(SummaryAwards(entry.nominee_ids)) = 2
              /\ now - entry.last_summary_time >= entry.summary_interval
              /\ Cardinality(Summaries(entry)) = 1
              /\ \E k \in DOMAIN entry.events :
                    AwardOf(entry.events[k])
                        = SummaryAwards(entry.nominee_ids)[2]
              /\ user_states[entry.endpoint].last_summary_time = now

\* C34: once the transport has answered 400 or 410 for an endpoint, no push
\* is attempted to it, neither for the later events of the same cycle nor in
\* a later cycle, until it subscribes again.
C34_NoAttemptAfterPermanent ==
    \A i \in DOMAIN log :
        LET entry == log[i]
        IN  \A k \in DOMAIN entry.events :
                (\/ entry.gone
                 \/ \E j \in 1..(k - 1) :
                       entry.events[j].outcome = "permanent")
                    => entry.events[k].attempted = {}

\* C35: every push computed for a recipient is attempted to that recipient
\* and to no other subscriber.
C35_OwnPushesOnly ==
    \A i \in DOMAIN log :
        \A j \in DOMAIN log[i].events :
            \A e \in log[i].events[j].attempted : e = log[i].endpoint

\* A recipient gets its pushes while another subscriber that tracks the
\* same nominees is subscribed and gets none of them.
C35_Witness ==
    /\ DOMAIN subscribers = Endpoints
    /\ \A e \in Endpoints :
          /\ e \in DOMAIN all_preferences
          /\ all_preferences[e].nominee_filter = FilterXYZ
    /\ \E i \in DOMAIN log :
          /\ log[i].events # <<>>
          /\ \A j \in DOMAIN log[i].events :
                log[i].events[j].attempted = {log[i].endpoint}

\* The step that ends the turn of a recipient that is not active in the
\* cycle sends it nothing and leaves its state as it was: absent if it had
\* none, with the same prev_votes and last_summary_time otherwise.
C36_Step ==
    \A e \in Endpoints :
        (/\ pc = "loop" /\ todo # <<>> /\ Head(todo) = e /\ todo' # todo
         /\ NomineeIds(all_preferences[e].nominee_filter, current_votes)
               = <<>>) =>
            /\ log' # <<>> /\ log'[Len(log')].events = <<>>
            /\ e \in DOMAIN user_states' <=> e \in DOMAIN user_states
            /\ e \in DOMAIN user_states => user_states'[e] = user_states[e]

\* C36: a recipient that is not active in a cycle (empty filter, or no
\* filtered nominee in both the catalog and the votes of the cycle) gets no
\* event in it and keeps its prev_votes and last_summary_time.
C36_InactiveUntouched == [][C36_Step]_vars

\* The rows of votes_history a request could see for a nominee.
InRange(nominee_id) ==
    {i \in DOMAIN request.history :
        /\ request.history[i].nid = Nid(request.award_id, nominee_id)
        /\ \A t \in request.start_at : request.history[i].fetched_at >= t}

\* C37: for an award of the catalog get_vote_history returns without an
\* error one entry per nominee of the catalog, cut to the first limit
\* entries of the descending order of current vote count; each history is
\* ascending by time, and a nominee without a row in the range has the
\* count 0 and an empty history.
C37_History ==
    (request.op = "get_vote_history"
        /\ request.award_id \in DOMAIN award_nominees) =>
        LET r == request.result
            catalog == award_nominees[request.award_id]
            n == Len(r.nominees)
        IN  /\ ~r.raised
            /\ n = IF request.limit > 0 /\ request.limit < Len(catalog)
                   THEN request.limit ELSE Len(catalog)
            /\ \A i \in 1..n : r.nominees[i].nominee_id \in Range(catalog)
            /\ \A i, j \in 1..n :
                  r.nominees[i].nominee_id = r.nominees[j].nominee_id => i = j
            /\ \A i, j \in 1..n :
                  i < j => r.nominees[i].current_vote_count
                             >= r.nominees[j].current_vote_count
            /\ \A id \in Range(catalog) :
                  \A i \in 1..n :
                    r.nominees[i].nominee_id # id =>
                        \/ \E j \in 1..n : r.nominees[j].nominee_id = id
                        \/ n = request.limit
            /\ \A i \in 1..n :
                  LET h == r.nominees[i].vote_history
                  IN  /\ Len(h) = Cardinality(InRange(r.nominees[i].nominee_id))
                      /\ \A a, b \in DOMAIN h :
                            a < b => h[a].timestamp <= h[b].timestamp
                      /\ h = <<>> => r.nominees[i].current_vote_count = 0

\* The fetch of a cycle succeeded and holds the tracked award and nominee.
GapFetched(response) ==
    /\ response.kind = "json"
    /\ response.success
    /\ SPECIFIC_AWARD \in DOMAIN response.data
    /\ SPECIFIC_NOMINEE \in Range(response.data[SPECIFIC_AWARD].ids)

\* A cycle of the tracker: with a usable fetch pifam_gap_tracking is then
\* one row, of the time and the votes of the cycle, and pifam_gap_history
\* has that row appended exactly when it was empty or its last row is at
\* least 600 seconds old; otherwise neither table changes.
C38_Step ==
    pifam' # pifam =>
        LET response == pifam'.response
            history == pifam.pifam_gap_history
            n == Len(history)
        IN  IF GapFetched(response)
            THEN \E row \in pifam'.pifam_gap_tracking :
                   /\ pifam'.pifam_gap_tracking = {row}
                   /\ row.award_id = SPECIFIC_AWARD
                   /\ row.nominee_id = SPECIFIC_NOMINEE
                   /\ row.fetched_at = pifam'.now
                   /\ row.current_votes =
                        response.data[SPECIFIC_AWARD].votes[SPECIFIC_NOMINEE]
                   /\ IF n = 0 \/ pifam'.now - history[n].fetched_at >= 600
                      THEN pifam'.pifam_gap_history = Append(history, row)
                      ELSE pifam'.pifam_gap_history = history
            ELSE /\ pifam'.pifam_gap_tracking = pifam.pifam_gap_tracking
                 /\ pifam'.pifam_gap_history = history

\* C38: every successful cycle overwrites the single row of
\* pifam_gap_tracking; a row is appended to pifam_gap_history on the first
\* successful cycle and then only 600 seconds or more after the last
\* history save; a cycle whose fetch fails or lacks the tracked award or
\* nominee writes to neither table.
C38_LatestAndHistory == [][C38_Step]_vars

\* Two history rows 600 seconds apart while the latest row is newer than
\* both and has other votes, after a cycle whose fetch was not usable.
C38_Witness ==
    /\ Len(pifam.pifam_gap_history) = 2
    /\ pifam.pifam_gap_history[2].fetched_at
          - pifam.pifam_gap_history[1].fetched_at = 600
    /\ ~GapFetched(pifam.response)
    /\ \E row \in pifam.pifam_gap_tracking :
          /\ row.fetched_at > pifam.pifam_gap_history[2].fetched_at
          /\ row.current_votes # pifam.pifam_gap_history[2].current_votes

====
